---------------------------- MODULE Spec2Model ----------------------------
(***************************************************************************)
(* Open-Box-Delivery: the vision-analysis orchestration layer.             *)
(*                                                                         *)
(*   src/lib/gemini-vision-service.ts       analyzeImages (single pair)    *)
(*   src/lib/multi-image-gemini-service.ts  analyzeMultipleImages          *)
(*   src/unnamed/part_001                   analyzeImagesWithHuggingFace   *)
(*   src/lib/python-image-processor.ts      processImagesWithPython        *)
(*   src/app/page.tsx, src/unnamed/part_000 the two pages                  *)
(*   src/components/multi-image-uploader.tsx, image-uploader.tsx           *)
(*                                                                         *)
(* Spec covers the two Gemini services, HuggingFaceSpec the local          *)
(* fallback, PyodideSpec the Python processor, ParserSpec the reply        *)
(* parsing step on its own, PageSpec a page with its upload widgets and    *)
(* progress timer, UploaderSpec the two widgets of the multi-angle page,   *)
(* and SimilaritySpec the Python function calculate_similarity_basic;      *)
(* each leaves the other parts idle.                                       *)
(*                                                                         *)
(* One analysis call is modelled per behaviour.  A step of the model is    *)
(* one turn of the JavaScript event loop: the code that runs from the      *)
(* resumption of an await (a file read finishing, an HTTP response         *)
(* arriving) up to the next await, return or throw.                        *)
(***************************************************************************)
EXTENDS Integers, Sequences, FiniteSets, TLC

VARIABLES
    service,          \* which exported function was called: "single" | "multi"
    pc,               \* where the call is suspended
    fileType,         \* the media type of the caller's files
    packagingImages,  \* the caller's packaging files, in caller order
    deliveryImages,   \* the caller's delivery files, in caller order
    pending,          \* indices of the file reads in flight (current batch)
    slots,            \* Promise.all's result slots of the current batch
    packagingBase64,  \* encoded packaging images, once awaited
    deliveryBase64,   \* encoded delivery images, once awaited
    reads,            \* readAsDataURL calls issued so far, per side
    requests,         \* every HTTP request body sent, in order
    inflight,         \* indices into requests still awaiting a response
    responses,        \* every HTTP response received, in order
    identification,   \* <<>> or <<the parsed stage-1 object>>
    result,           \* <<>> or <<the report the call resolved with>>
    error             \* <<>> or <<the value the call rejected with>>

geminiVars == <<service, pc, fileType, packagingImages, deliveryImages, pending,
                slots, packagingBase64, deliveryBase64, reads, requests, inflight,
                responses, identification, result, error>>

\* the state of a call of analyzeImagesWithHuggingFace
VARIABLES
    hfPc,             \* where the call is suspended
    hfFiles,          \* <<packagingImage, deliveryImage>>, the caller's files
    hfBase64,         \* the data URLs read so far, in call order
    hfPending,        \* the captioning requests in flight: 1 packaging, 2 delivery
    hfResponses,      \* per captioning request, <<>> or <<its response>>
    hfDescriptions,   \* per captioning request, <<>> or <<the value it returned>>
    hfContext,        \* whether getContext("2d") gives a context
    hfDecoding,       \* the images whose load or error event is still to come
    loadedCount,      \* calculateImageSimilarity's counter of load events
    hfSimilarity,     \* every value resolve() was called with, in order
    hfResult,         \* <<>> or <<the report the call resolved with>>
    hfError           \* <<>> or <<the value the call rejected with>>

huggingFaceVars == <<hfPc, hfFiles, hfBase64, hfPending, hfResponses, hfDescriptions,
                     hfContext, hfDecoding, loadedCount, hfSimilarity, hfResult,
                     hfError>>

\* the Pyodide interpreter and the calls of processImagesWithPython
VARIABLES
    pyodideInstance,  \* the module's variable: 0 (null) or an interpreter
    loadPyodide,      \* whether window.loadPyodide is defined yet
    interpreters,     \* the Python globals of every interpreter created
    pyPc,             \* per call, where it is suspended
    pyArgs,           \* per call, <<>> or <<img1Base64, img2Base64>>
    attempts,         \* per call, initializePyodide's counter of polls
    pyodide,          \* per call, the interpreter initializePyodide gave it
    pyResult,         \* per call, <<>> or <<the value it resolved with>>
    pyError           \* per call, <<>> or <<the value it rejected with>>

pyodideVars == <<pyodideInstance, loadPyodide, interpreters, pyPc, pyArgs, attempts,
                 pyodide, pyResult, pyError>>

\* the reply text handed to the parser and what became of it
VARIABLES
    replyText,        \* the text of the model's reply, character by character
    parsed            \* <<>> or <<the outcome of match and JSON.parse>>

parserVars == <<replyText, parsed>>

\* a page of the application with its two upload widgets
VARIABLES
    pageKind,          \* which page is shown: "single" | "multi"
    selectedImages,    \* per side, the page's files (at most one on "single")
    previewUrls,       \* per side, the upload widget's preview URLs
    isAnalyzing,       \* the page's isAnalyzing state
    analysisProgress,  \* the page's analysisProgress state
    results,           \* <<>> (null) or <<the report shown>>
    pageError,         \* <<>> (null) or <<the message shown>>
    analyses,          \* how many times handleAnalysis started a call
    analysisCalls,     \* the calls of the analyzer still pending
    progressIntervals, \* the setInterval timers not cleared
    publishTimeouts    \* the setTimeout callbacks still to run

pageVars == <<pageKind, selectedImages, previewUrls, isAnalyzing, analysisProgress,
              results, pageError, analyses, analysisCalls, progressIntervals,
              publishTimeouts>>

\* a call of the Python function calculate_similarity_basic
VARIABLES
    similarityArgs,    \* <<img1, img2>> after base64_to_image, resize, convert
    similarity         \* <<>> or <<the value returned>>

similarityVars == <<similarityArgs, similarity>>

\* the variables outside each part of the program
otherServiceVars == <<huggingFaceVars, pyodideVars, parserVars, pageVars, similarityVars>>
notHuggingFaceVars == <<geminiVars, pyodideVars, parserVars, pageVars, similarityVars>>
notPyodideVars == <<geminiVars, huggingFaceVars, parserVars, pageVars, similarityVars>>
notParserVars == <<geminiVars, huggingFaceVars, pyodideVars, pageVars, similarityVars>>
notPageVars == <<geminiVars, huggingFaceVars, pyodideVars, parserVars, similarityVars>>
notSimilarityVars == <<geminiVars, huggingFaceVars, pyodideVars, parserVars, pageVars>>

vars == <<geminiVars, huggingFaceVars, pyodideVars, parserVars, pageVars, similarityVars>>

---------------------------------------------------------------------------
(* Bounds of the model *)

\* most images per side handed to analyzeMultipleImages
MaxImages == 2
\* most entries in a list-valued field of a model reply
MaxItems == 1

---------------------------------------------------------------------------
(* JavaScript values as they come out of JSON.parse: one record shape for  *)
(* every value, so that an absent field (undefined) is a value like any    *)
(* other.  A string is a sequence of text fragments (a template literal    *)
(* is the concatenation of its fragments).                                 *)

Undefined == [t |-> "undefined", b |-> FALSE, n |-> 0, s |-> <<>>, l |-> <<>>]
JSBool(x) == [t |-> "boolean", b |-> x, n |-> 0, s |-> <<>>, l |-> <<>>]
JSNum(x) == [t |-> "number", b |-> FALSE, n |-> x, s |-> <<>>, l |-> <<>>]
JSStr(x) == [t |-> "string", b |-> FALSE, n |-> 0, s |-> x, l |-> <<>>]
JSList(x) == [t |-> "array", b |-> FALSE, n |-> 0, s |-> <<>>, l |-> x]

\* the condition of `if (v)` and the left side of `v || w`
Truthy(v) ==
    CASE v.t = "undefined" -> FALSE
      [] v.t = "boolean" -> v.b
      [] v.t = "number" -> v.n # 0
      [] v.t = "string" -> v.s # <<>>
      [] OTHER -> TRUE

\* `${v}` inside a template literal
Interpolate(v) ==
    CASE v.t = "undefined" -> <<"undefined">>
      [] v.t = "boolean" -> IF v.b THEN <<"true">> ELSE <<"false">>
      [] v.t = "number" -> <<ToString(v.n)>>
      [] v.t = "string" -> v.s
      [] OTHER -> <<"[array]">>

\* a thrown value: an Error object with a message, or something else
\* (the ProgressEvent a FileReader rejects with)
NewError(msg) == [isError |-> TRUE, message |-> msg]
TypeError == NewError(<<"TypeError">>)
ProgressEvent == [isError |-> FALSE, message |-> <<>>]

---------------------------------------------------------------------------
(* Files and the Image Encoder *)

FileTypes == {"image/jpeg", "image/png"}

\* the files a caller can hand over: contents are distinct per side and
\* position, each file is readable or not
File(side, i, ok, ty) == [bytes |-> <<side, ToString(i)>>, readable |-> ok, type |-> ty]

Base64(bytes) == <<"base64">> \o bytes

\* reader.result after readAsDataURL, as its comma-separated pieces
DataURL(file) == <<<<"data:", file.type, ";base64">>, Base64(file.bytes)>>

\* result.split(",")[1]
convertImageToBase64(file) == DataURL(file)[2]

\* variant of ReaderLoads in which the reader's error handler resolves too
\* (`reader.onerror = () => resolve("")`); Claim_C19 must reject it
ReaderNeverRejects(file) == TRUE

\* the read ends with onload (the promise resolves) rather than with
\* onerror (the promise rejects with the reader's event)
ReaderLoads(file) == file.readable

---------------------------------------------------------------------------
(* Vision Client *)

TextPart(prompt) == [kind |-> "text", text |-> prompt, mime_type |-> "", data |-> <<>>]
InlineImagePart(image) == [kind |-> "inline_data", text |-> <<>>, mime_type |-> "image/jpeg", data |-> image]

\* variant of RequestParts that puts the prompt after the images;
\* Claim_C8 must reject it
RequestPartsPromptLast(prompt, images) ==
    [i \in 1..Len(images) |-> InlineImagePart(images[i])] \o <<TextPart(prompt)>>

\* the parts array of the JSON body: the prompt, then images.map(...)
RequestParts(prompt, images) ==
    <<TextPart(prompt)>> \o [i \in 1..Len(images) |-> InlineImagePart(images[i])]

\* body of the POST of gemini-vision-service.ts
RequestBody(prompt, images) ==
    [parts |-> RequestParts(prompt, images), maxOutputTokens |-> 4096]

\* body of the POST of multi-image-gemini-service.ts
MultiRequestBody(prompt, images) ==
    [parts |-> RequestParts(prompt, images), maxOutputTokens |-> 8192]

\* what the endpoint can answer: the fetch itself rejecting, or an HTTP
\* response with a status and a body that is not JSON, JSON without
\* candidates, JSON whose first part has no text, or JSON carrying a reply
\* text
Statuses == {200, 400, 401, 429, 500}
StatusText(status) ==
    CASE status = 200 -> "OK"
      [] status = 400 -> "Bad Request"
      [] status = 401 -> "Unauthorized"
      [] status = 429 -> "Too Many Requests"
      [] OTHER -> "Internal Server Error"

NetworkError(emptyReply) ==
    [kind |-> "network_error", status |-> 0, statusText |-> "", body |-> "none", reply |-> emptyReply]
HttpResponse(status, body, reply) ==
    [kind |-> "http", status |-> status, statusText |-> StatusText(status), body |-> body, reply |-> reply]

\* every response to a request whose reply text, if any, is one of replies
Responses(replies, emptyReply) ==
    {NetworkError(emptyReply)}
    \cup {HttpResponse(st, "none", emptyReply) : st \in Statuses \ {200}}
    \cup {HttpResponse(200, b, emptyReply) : b \in {"not_json", "no_candidates"}}
    \cup {HttpResponse(200, "no_text", [emptyReply EXCEPT !.shape = "not_a_string"])}
    \cup {HttpResponse(200, "text", r) : r \in replies}

ResponseOk(resp) == resp.status >= 200 /\ resp.status <= 299

Returned(text) == [ok |-> TRUE, text |-> <<text>>, thrown |-> <<>>]
Thrown(err) == [ok |-> FALSE, text |-> <<>>, thrown |-> <<err>>]

\* the status-code branches of callGemini, gemini-vision-service.ts
StatusError(status, statusText) ==
    IF status = 401
    THEN NewError(<<"Invalid API key. Please check your Gemini API key.">>)
    ELSE IF status = 429
    THEN NewError(<<"Rate limit exceeded. Please try again in a moment.">>)
    ELSE IF status = 400
    THEN NewError(<<"Invalid request. Please check your images and try again.">>)
    ELSE NewError(<<"Gemini API error: ", ToString(status), " - ", statusText>>)

\* the single throw of callGemini, multi-image-gemini-service.ts
MultiStatusError(status, statusText) ==
    NewError(<<"Gemini API error: ", ToString(status), " - ", statusText>>)

\* what follows `await response.json()`: data.candidates[0].content
\* .parts[0].text, which is undefined when the part carries no text
ResponseText(resp) ==
    IF resp.body = "not_json" THEN Thrown(NewError(<<"SyntaxError">>))
    ELSE IF resp.body = "no_candidates" THEN Thrown(TypeError)
    ELSE Returned(resp.reply)

\* callGemini of gemini-vision-service.ts, from the resumption of
\* `await fetch(...)` to its return or throw
callGemini(resp) ==
    IF resp.kind = "network_error" THEN Thrown(NewError(<<"Failed to fetch">>))
    ELSE IF ~ResponseOk(resp) THEN Thrown(StatusError(resp.status, resp.statusText))
    ELSE ResponseText(resp)

\* callGemini of multi-image-gemini-service.ts, likewise
callGeminiMulti(resp) ==
    IF resp.kind = "network_error" THEN Thrown(NewError(<<"Failed to fetch">>))
    ELSE IF ~ResponseOk(resp) THEN Thrown(MultiStatusError(resp.status, resp.statusText))
    ELSE ResponseText(resp)

---------------------------------------------------------------------------
(* Response Parser: text.match(/\{[\s\S]*\}/) and JSON.parse of the match. *)
(* A reply is one of: prose without a brace pair, a brace pair whose span  *)
(* is not JSON, a brace pair whose span is a JSON object, or no string at  *)
(* all (undefined), on which .match throws inside the try block.           *)

ReplyShapes == {"no_braces", "malformed", "object", "not_a_string"}

\* jsonMatch is computed and non-null
JsonMatch(reply) == reply.shape \notin {"no_braces", "not_a_string"}

\* variant of ParsesToObject in which a failing JSON.parse goes unnoticed;
\* Claim_C5 must reject it
JsonMatchOnly(reply) == reply.shape \notin {"no_braces", "not_a_string"}

\* the inner try block yields an object (no throw inside it)
ParsesToObject(reply) == JsonMatch(reply) /\ reply.shape = "object"

\* the lists a list-valued field can hold
Lists(items) == UNION {[1..k -> items] : k \in 0..MaxItems}

---------------------------------------------------------------------------
(* Single-Pair Analyzer: the replies the model can give *)

\* packaging_analysis / delivery_analysis of the stage-1 object
AbsentAnalysis == [present |-> FALSE, product_name |-> Undefined]
PresentAnalysis(name) == [present |-> TRUE, product_name |-> name]
PackagingAnalyses ==
    {AbsentAnalysis} \cup {PresentAnalysis(v) : v \in {Undefined, JSStr(<<"Toaster">>)}}
DeliveryAnalyses ==
    {AbsentAnalysis}
    \cup {PresentAnalysis(v) : v \in {Undefined, JSStr(<<"Toaster">>), JSStr(<<"Blender">>)}}

\* initial_comparison of the stage-1 object
AbsentComparison ==
    [present |-> FALSE, products_match |-> Undefined, confidence_level |-> Undefined,
     obvious_differences |-> Undefined]
ObviousDifferences == {Undefined} \cup {JSList(l) : l \in Lists({<<"scuffed corner">>})}
InitialComparisons ==
    {AbsentComparison}
    \cup [present : {TRUE},
          products_match : {Undefined, JSBool(TRUE), JSBool(FALSE)},
          confidence_level : {Undefined, JSNum(90), JSNum(150)},
          obvious_differences : ObviousDifferences]

Stage1Objects ==
    [packaging_analysis : PackagingAnalyses,
     delivery_analysis : DeliveryAnalyses,
     initial_comparison : InitialComparisons]
EmptyStage1Object ==
    [packaging_analysis |-> AbsentAnalysis, delivery_analysis |-> AbsentAnalysis,
     initial_comparison |-> AbsentComparison]
NoStage1Reply == [shape |-> "no_braces", obj |-> EmptyStage1Object]
Stage1Replies ==
    {[shape |-> sh, obj |-> EmptyStage1Object] : sh \in {"no_braces", "malformed"}}
    \cup {[shape |-> "object", obj |-> o] : o \in Stage1Objects}

\* technicalAnalysis of a report: {} or the stage-2 technical_analysis or
\* the mismatch marker
TechnicalAnalysis(t, mismatch, pkg, dlv, conf, completeness) ==
    [t |-> t, mismatch_type |-> mismatch, packaging_product |-> pkg,
     delivery_product |-> dlv, confidence |-> conf, completeness_score |-> completeness]
EmptyObject ==
    TechnicalAnalysis("object", Undefined, Undefined, Undefined, Undefined, Undefined)
UndefinedObject ==
    TechnicalAnalysis("undefined", Undefined, Undefined, Undefined, Undefined, Undefined)

\* one entry of detailed_differences
DetailedDifference ==
    [category |-> <<"physical_condition">>, description |-> <<"dented lid">>,
     severity |-> <<"low">>]

Stage2Objects ==
    [similarity_percentage : {Undefined, JSNum(85)},
     detailed_differences : {Undefined} \cup {JSList(l) : l \in Lists({DetailedDifference})},
     technical_analysis :
        {UndefinedObject,
         TechnicalAnalysis("object", Undefined, Undefined, Undefined, Undefined, JSNum(80))},
     visual_differences : {Undefined, JSStr(<<"lid is dented">>)},
     summary : {Undefined, JSStr(<<"same product, minor wear">>)}]
EmptyStage2Object ==
    [similarity_percentage |-> Undefined, detailed_differences |-> Undefined,
     technical_analysis |-> UndefinedObject, visual_differences |-> Undefined,
     summary |-> Undefined]
NoStage2Reply == [shape |-> "no_braces", obj |-> EmptyStage2Object]
Stage2Replies ==
    {[shape |-> sh, obj |-> EmptyStage2Object] : sh \in {"no_braces", "malformed"}}
    \cup {[shape |-> "object", obj |-> o] : o \in Stage2Objects}

---------------------------------------------------------------------------
(* Single-Pair Analyzer: analyzeImages *)

identificationPrompt == <<"You are an expert product analyst ... identify both products">>

similarityPrompt(id) ==
    <<"These images show the same product: \"">>
    \o Interpolate(id.packaging_analysis.product_name)
    \o <<"\". Conduct a detailed similarity analysis ...">>

\* variant of OuterCatch that re-raises whatever was caught
\* (`catch (error) { throw error }`); Claim_C16 must reject it
OuterCatchRethrow(err) == err

\* the outermost catch: an Error is re-thrown, anything else is replaced
OuterCatch(err) ==
    IF err.isError THEN err
    ELSE NewError(<<"Failed to analyze images. Please try again.">>)

\* the error of the catch around the stage-1 parse
Stage1ParseError == NewError(<<"Failed to parse initial analysis. Please try again.">>)

\* variant of TakesMatchBranch that tests presence instead of truth
\* (`if (areProductsSame !== undefined)`); Claim_C1 must reject it
TakesMatchBranchIfPresent(id) == id.initial_comparison.products_match.t # "undefined"

\* `if (areProductsSame)`
TakesMatchBranch(id) == Truthy(id.initial_comparison.products_match)

\* `...v` inside an array literal works on arrays and strings
Iterable(v) == v.t = "array" \/ v.t = "string"
Spread(v) == IF v.t = "array" THEN v.l ELSE [i \in 1..Len(v.s) |-> <<v.s[i]>>]

\* the object of the return statement
Report(id, sim, diffs, summary, visual, ta) ==
    [packagingProduct |-> id.packaging_analysis.product_name,
     deliveryProduct |-> id.delivery_analysis.product_name,
     areProductsSame |-> id.initial_comparison.products_match,
     similarityPercentage |-> sim,
     differences |-> diffs,
     summary |-> summary,
     visualDifferences |-> visual,
     confidenceScore |-> id.initial_comparison.confidence_level,
     technicalAnalysis |-> ta]

\* the return statement reads both analyses' product_name
ReturnThrows(id) == ~id.packaging_analysis.present \/ ~id.delivery_analysis.present

Resolve(report) == [kind |-> "return", value |-> <<report>>, thrown |-> <<>>]
Reject(err) == [kind |-> "throw", value |-> <<>>, thrown |-> <<OuterCatch(err)>>]
Await(prompt) == [kind |-> "await", value |-> <<prompt>>, thrown |-> <<>>]

\* the else branch: products are different
MismatchDifferences(id) ==
    JSList(<<<<"Packaging shows: ">> \o Interpolate(id.packaging_analysis.product_name),
             <<"Delivery shows: ">> \o Interpolate(id.delivery_analysis.product_name),
             <<"Products are completely different items">>>>
           \o Spread(id.initial_comparison.obvious_differences))

MismatchSummary(id) ==
    JSStr(<<"DELIVERY MISMATCH DETECTED: The packaging image contains \"">>
          \o Interpolate(id.packaging_analysis.product_name)
          \o <<"\" while the delivery image shows \"">>
          \o Interpolate(id.delivery_analysis.product_name)
          \o <<"\". This indicates a serious delivery error ...">>)

MismatchReport(id) ==
    Report(id, Undefined, MismatchDifferences(id), MismatchSummary(id), Undefined,
           TechnicalAnalysis("object", JSStr(<<"different_products">>),
                             id.packaging_analysis.product_name,
                             id.delivery_analysis.product_name,
                             id.initial_comparison.confidence_level, Undefined))

\* analyzeImages from the stage-1 reply text to the next await, return or
\* throw
AfterIdentification(reply) ==
    IF ~ParsesToObject(reply) THEN Reject(Stage1ParseError)
    ELSE LET id == reply.obj IN
         IF ~id.initial_comparison.present THEN Reject(TypeError)
         ELSE IF TakesMatchBranch(id)
         THEN IF ~id.packaging_analysis.present THEN Reject(TypeError)
              ELSE Await(similarityPrompt(id))
         ELSE IF \/ ~id.packaging_analysis.present
                 \/ ~id.delivery_analysis.present
                 \/ ~Iterable(id.initial_comparison.obvious_differences)
         THEN Reject(TypeError)
         ELSE Resolve(MismatchReport(id))

\* `${diff.category}: ${diff.description} (${diff.severity} severity)`
FormatDifference(diff) ==
    diff.category \o <<": ">> \o diff.description \o <<" (">> \o diff.severity
    \o <<" severity)">>

\* the try block of stage 2, when nothing in it throws
SimilarityReport(id, sa) ==
    Report(id, sa.similarity_percentage,
           JSList([i \in 1..Len(sa.detailed_differences.l) |->
                      FormatDifference(sa.detailed_differences.l[i])]),
           sa.summary, sa.visual_differences, sa.technical_analysis)

\* the try block of stage 2 throws: .match on a non-string, no match,
\* JSON.parse fails, or .map is read from an undefined detailed_differences
Stage2TryThrows(reply) ==
    \/ ~ParsesToObject(reply)
    \/ reply.obj.detailed_differences.t # "array"

\* variant of FallbackReport without the `|| []` default; Claim_C3 must
\* reject it
FallbackReportNoDefault(id) ==
    Report(id, JSNum(75), id.initial_comparison.obvious_differences,
           JSStr(<<"Both images show the same product: ">>
                 \o Interpolate(id.packaging_analysis.product_name)
                 \o <<". Some variations detected in presentation or condition.">>),
           Undefined, EmptyObject)

\* the catch block of stage 2
FallbackReport(id) ==
    Report(id, JSNum(75),
           IF Truthy(id.initial_comparison.obvious_differences)
           THEN id.initial_comparison.obvious_differences
           ELSE JSList(<<>>),
           JSStr(<<"Both images show the same product: ">>
                 \o Interpolate(id.packaging_analysis.product_name)
                 \o <<". Some variations detected in presentation or condition.">>),
           Undefined, EmptyObject)

\* analyzeImages from the stage-2 reply text to its return or throw
AfterSimilarity(id, reply) ==
    IF ReturnThrows(id) THEN Reject(TypeError)
    ELSE IF Stage2TryThrows(reply) THEN Resolve(FallbackReport(id))
    ELSE Resolve(SimilarityReport(id, reply.obj))

\* analyzeImages after `await callGemini(identificationPrompt, ...)`: a
\* throw of callGemini goes to the outermost catch
IdentificationStep(call) ==
    IF call.ok THEN AfterIdentification(call.text[1]) ELSE Reject(call.thrown[1])

\* variant of SimilarityStep with the stage-2 call moved inside the inner
\* try, so that its failure is swallowed by the fallback; Claim_C7 must
\* reject it
SimilarityStepSwallow(id, call) ==
    IF call.ok THEN AfterSimilarity(id, call.text[1])
    ELSE IF ReturnThrows(id) THEN Reject(TypeError)
    ELSE Resolve(FallbackReport(id))

\* analyzeImages after `await callGemini(similarityPrompt, ...)`: the call
\* stands before the inner try, so its throw goes to the outermost catch
SimilarityStep(id, call) ==
    IF call.ok THEN AfterSimilarity(id, call.text[1]) ELSE Reject(call.thrown[1])

---------------------------------------------------------------------------
(* analyzeImages as steps of the event loop *)

\* variant of RequestsAfterEncoding that issues both stages together
\* without awaiting the first; Claim_C2 must reject it
RequestsAfterEncodingBoth(packaging, delivery) ==
    <<RequestBody(identificationPrompt, <<packaging, delivery>>),
      RequestBody(similarityPrompt(EmptyStage1Object), <<packaging, delivery>>)>>

\* the requests issued once both images are encoded: stage 1 alone
RequestsAfterEncoding(packaging, delivery) ==
    <<RequestBody(identificationPrompt, <<packaging, delivery>>)>>

\* indices of the requests appended to the log by a send
NewIndices(log, sent) == (Len(log) + 1)..(Len(log) + Len(sent))

\* analyzeImages is called: the packaging file's read is started
AnalyzeImages ==
    /\ service = "single"
    /\ pc = "start"
    /\ pc' = "readPackaging"
    /\ reads' = reads + 1
    /\ pending' = {1}
    /\ UNCHANGED <<service, fileType, packagingImages, deliveryImages, slots,
                   packagingBase64, deliveryBase64, requests, inflight, responses,
                   identification, result, error>>
    /\ UNCHANGED otherServiceVars

\* the packaging read ends (onload or onerror); on success the delivery
\* read is started
PackagingRead ==
    /\ service = "single"
    /\ pc = "readPackaging"
    /\ IF ReaderLoads(packagingImages[1])
       THEN /\ packagingBase64' = <<convertImageToBase64(packagingImages[1])>>
            /\ pc' = "readDelivery"
            /\ reads' = reads + 1
            /\ UNCHANGED <<pending, error>>
       ELSE /\ error' = <<OuterCatch(ProgressEvent)>>
            /\ pc' = "failed"
            /\ pending' = {}
            /\ UNCHANGED <<packagingBase64, reads>>
    /\ UNCHANGED <<service, fileType, packagingImages, deliveryImages, slots,
                   deliveryBase64, requests, inflight, responses, identification,
                   result>>
    /\ UNCHANGED otherServiceVars

\* the delivery read ends; on success the stage-1 request is sent
DeliveryRead ==
    /\ service = "single"
    /\ pc = "readDelivery"
    /\ pending' = {}
    /\ IF ReaderLoads(deliveryImages[1])
       THEN LET encoded == convertImageToBase64(deliveryImages[1])
                sent == RequestsAfterEncoding(packagingBase64[1], encoded)
            IN /\ deliveryBase64' = <<encoded>>
               /\ requests' = requests \o sent
               /\ inflight' = inflight \cup NewIndices(requests, sent)
               /\ pc' = "identifying"
               /\ UNCHANGED error
       ELSE /\ error' = <<OuterCatch(ProgressEvent)>>
            /\ pc' = "failed"
            /\ UNCHANGED <<deliveryBase64, requests, inflight>>
    /\ UNCHANGED <<service, fileType, packagingImages, deliveryImages, slots,
                   packagingBase64, reads, responses, identification, result>>
    /\ UNCHANGED otherServiceVars

\* the stage-1 response arrives: callGemini finishes, the reply is parsed
\* and the branch is taken, up to the stage-2 send, the return or a throw
IdentificationResponse ==
    /\ service = "single"
    /\ pc = "identifying"
    /\ 1 \in inflight
    /\ \E resp \in Responses(Stage1Replies, NoStage1Reply) :
         LET call == callGemini(resp)
             step == IdentificationStep(call)
         IN /\ responses' = Append(responses, resp)
            /\ identification' =
                 IF call.ok /\ ParsesToObject(call.text[1])
                 THEN <<call.text[1].obj>> ELSE identification
            /\ IF step.kind = "await"
               THEN LET sent == <<RequestBody(step.value[1],
                                              <<packagingBase64[1], deliveryBase64[1]>>)>>
                    IN /\ requests' = requests \o sent
                       /\ inflight' = (inflight \ {1}) \cup NewIndices(requests, sent)
                       /\ pc' = "scoring"
                       /\ UNCHANGED <<result, error>>
               ELSE /\ inflight' = inflight \ {1}
                    /\ result' = step.value
                    /\ error' = step.thrown
                    /\ pc' = IF step.kind = "return" THEN "done" ELSE "failed"
                    /\ UNCHANGED requests
    /\ UNCHANGED <<service, fileType, packagingImages, deliveryImages, pending, slots,
                   packagingBase64, deliveryBase64, reads>>
    /\ UNCHANGED otherServiceVars

\* the stage-2 response arrives: callGemini finishes, then the try/catch
\* around the stage-2 parse and the return statement
SimilarityResponse ==
    /\ service = "single"
    /\ pc = "scoring"
    /\ Len(requests) \in inflight
    /\ \E resp \in Responses(Stage2Replies, NoStage2Reply) :
         LET call == callGemini(resp)
             step == SimilarityStep(identification[1], call)
         IN /\ responses' = Append(responses, resp)
            /\ inflight' = inflight \ {Len(requests)}
            /\ result' = step.value
            /\ error' = step.thrown
            /\ pc' = IF step.kind = "return" THEN "done" ELSE "failed"
    /\ UNCHANGED <<service, fileType, packagingImages, deliveryImages, pending, slots,
                   packagingBase64, deliveryBase64, reads, requests, identification>>
    /\ UNCHANGED otherServiceVars

---------------------------------------------------------------------------
(* Multi-Angle Analyzer: the replies the model can give *)

\* an index the model may name in an angle comparison: every index of a
\* largest batch, and one past it
AngleIndices == 0..MaxImages

AngleComparison(p, d) ==
    [angle |-> JSStr(<<"front_view">>), packaging_image_index |-> JSNum(p),
     delivery_image_index |-> JSNum(d), similarity_percentage |-> JSNum(85),
     differences |-> JSList(<<>>), match_quality |-> JSStr(<<"good">>)]
AngleComparisons == {AngleComparison(p, d) : p \in AngleIndices, d \in AngleIndices}

AbsentAssessment ==
    [present |-> FALSE, products_match |-> Undefined, overall_similarity |-> Undefined,
     confidence_level |-> Undefined, comprehensive_differences |-> Undefined,
     missing_angles |-> Undefined]
FullAssessment ==
    [present |-> TRUE, products_match |-> JSBool(TRUE), overall_similarity |-> JSNum(85),
     confidence_level |-> JSNum(90),
     comprehensive_differences |-> JSList(<<<<"dented lid">>>>),
     missing_angles |-> JSList(<<<<"bottom">>>>)]
\* overall_assessment: absent, complete with any verdict, or with one field
\* missing or out of range
OverallAssessments ==
    {AbsentAssessment}
    \cup {[FullAssessment EXCEPT !.products_match = v] :
            v \in {JSBool(TRUE), JSBool(FALSE), Undefined}}
    \cup {[FullAssessment EXCEPT !.overall_similarity = Undefined],
          [FullAssessment EXCEPT !.confidence_level = Undefined],
          [FullAssessment EXCEPT !.confidence_level = JSNum(150)],
          [FullAssessment EXCEPT !.comprehensive_differences = Undefined],
          [FullAssessment EXCEPT !.missing_angles = Undefined]}

\* technical_analysis of the multi-angle reply, and technicalAnalysis of
\* the report built from it
MultiTechnical(present, coverage, np, nd, na, missing) ==
    [present |-> present, coverage_completeness |-> coverage,
     total_packaging_images |-> np, total_delivery_images |-> nd,
     angles_analyzed |-> na, missing_angles |-> missing]
AbsentTechnical ==
    MultiTechnical(FALSE, Undefined, Undefined, Undefined, Undefined, Undefined)
TechnicalAnalyses ==
    {AbsentTechnical}
    \cup {MultiTechnical(TRUE, c, n, n, n, Undefined) :
            c \in {Undefined, JSNum(95)}, n \in {Undefined, JSNum(7)}}

FullAnalysis ==
    [product_identification |-> PresentAnalysis(JSStr(<<"Toaster">>)),
     overall_assessment |-> FullAssessment,
     technical_analysis |-> MultiTechnical(TRUE, JSNum(95), Undefined, Undefined,
                                           Undefined, Undefined),
     angle_comparisons |-> JSList(<<AngleComparison(0, 0)>>),
     recommendations |-> JSList(<<<<"accept delivery">>>>)]
EmptyAnalysis ==
    [product_identification |-> AbsentAnalysis, overall_assessment |-> AbsentAssessment,
     technical_analysis |-> AbsentTechnical, angle_comparisons |-> Undefined,
     recommendations |-> Undefined]
\* the reply objects: every combination of the fields outside the angle
\* list, and every angle list inside an otherwise complete reply
MultiObjects ==
    [product_identification : PackagingAnalyses,
     overall_assessment : OverallAssessments,
     technical_analysis : TechnicalAnalyses,
     angle_comparisons : {JSList(<<AngleComparison(0, 0)>>)},
     recommendations : {Undefined, JSList(<<<<"accept delivery">>>>)}]
    \cup {[FullAnalysis EXCEPT !.angle_comparisons = a] :
            a \in {Undefined} \cup {JSList(l) : l \in Lists(AngleComparisons)}}
NoMultiReply == [shape |-> "no_braces", obj |-> EmptyAnalysis]
MultiReplies ==
    {[shape |-> sh, obj |-> EmptyAnalysis] : sh \in {"no_braces", "malformed"}}
    \cup {[shape |-> "object", obj |-> o] : o \in MultiObjects}

---------------------------------------------------------------------------
(* Multi-Angle Analyzer: analyzeMultipleImages *)

analysisPrompt(np, nd) ==
    <<"PACKAGING IMAGES (First ", ToString(np), " images) ... DELIVERY IMAGES (Next ",
      ToString(nd), " images) ... Respond in JSON format ...">>

MultiOuterCatch(err) ==
    IF err.isError THEN err
    ELSE NewError(<<"Failed to analyze multiple images. Please try again.">>)

MultiParseError == NewError(<<"Failed to parse multi-image analysis. Please try again.">>)

MultiResolve(report) == [kind |-> "return", value |-> <<report>>, thrown |-> <<>>]
MultiReject(err) == [kind |-> "throw", value |-> <<>>, thrown |-> <<MultiOuterCatch(err)>>]

\* one element of analysis.angle_comparisons.map(...)
AngleAnalysis(comp) ==
    [angle |-> comp.angle,
     packagingImageIndex |-> comp.packaging_image_index,
     deliveryImageIndex |-> comp.delivery_image_index,
     similarityPercentage |-> comp.similarity_percentage,
     differences |-> comp.differences,
     matchQuality |-> comp.match_quality]

\* variant of detailedSummary whose verdict sentence tests presence
\* (`products_match !== undefined ? ... : ...`); Claim_C24 must reject it
detailedSummaryIfPresent(analysis, np, nd) ==
    JSStr(<<"Multi-angle analysis of ">>
          \o Interpolate(analysis.product_identification.product_name)
          \o <<" completed. Analyzed ", ToString(np), " packaging images and ",
               ToString(nd), " delivery images. Overall similarity: ">>
          \o Interpolate(analysis.overall_assessment.overall_similarity)
          \o <<"%. ",
               IF analysis.overall_assessment.products_match.t # "undefined"
               THEN "Products match across all angles."
               ELSE "Significant discrepancies detected.",
               " Coverage completeness: ">>
          \o Interpolate(analysis.technical_analysis.coverage_completeness)
          \o <<"%.">>)

detailedSummary(analysis, np, nd) ==
    JSStr(<<"Multi-angle analysis of ">>
          \o Interpolate(analysis.product_identification.product_name)
          \o <<" completed. Analyzed ", ToString(np), " packaging images and ",
               ToString(nd), " delivery images. Overall similarity: ">>
          \o Interpolate(analysis.overall_assessment.overall_similarity)
          \o <<"%. ",
               IF Truthy(analysis.overall_assessment.products_match)
               THEN "Products match across all angles."
               ELSE "Significant discrepancies detected.",
               " Coverage completeness: ">>
          \o Interpolate(analysis.technical_analysis.coverage_completeness)
          \o <<"%.">>)

\* variant of EnrichedTechnical whose spread comes after the computed counts
\* (`{ total_packaging_images: ..., ...analysis.technical_analysis }`), so
\* that the model's own fields win; Claim_C11 must reject it
EnrichedTechnicalSpreadLast(analysis, np, nd) ==
    LET ta == analysis.technical_analysis
        Own(v, computed) == IF v.t # "undefined" THEN v ELSE computed
    IN [ta EXCEPT
          !.total_packaging_images = Own(ta.total_packaging_images, JSNum(np)),
          !.total_delivery_images = Own(ta.total_delivery_images, JSNum(nd)),
          !.angles_analyzed =
              Own(ta.angles_analyzed, JSNum(Len(analysis.angle_comparisons.l))),
          !.missing_angles = analysis.overall_assessment.missing_angles]

\* { ...analysis.technical_analysis, total_packaging_images, ... }
EnrichedTechnical(analysis, np, nd) ==
    [analysis.technical_analysis EXCEPT
        !.total_packaging_images = JSNum(np),
        !.total_delivery_images = JSNum(nd),
        !.angles_analyzed = JSNum(Len(analysis.angle_comparisons.l)),
        !.missing_angles = analysis.overall_assessment.missing_angles]

\* the object of the return statement
MultiReport(analysis, np, nd) ==
    [packagingProduct |-> analysis.product_identification.product_name,
     deliveryProduct |-> analysis.product_identification.product_name,
     areProductsSame |-> analysis.overall_assessment.products_match,
     overallSimilarityPercentage |-> analysis.overall_assessment.overall_similarity,
     angleAnalysis |-> JSList([i \in 1..Len(analysis.angle_comparisons.l) |->
                                  AngleAnalysis(analysis.angle_comparisons.l[i])]),
     comprehensiveDifferences |-> analysis.overall_assessment.comprehensive_differences,
     detailedSummary |-> detailedSummary(analysis, np, nd),
     confidenceScore |-> analysis.overall_assessment.confidence_level,
     technicalAnalysis |-> EnrichedTechnical(analysis, np, nd),
     recommendations |-> analysis.recommendations]

\* a property is read from an undefined object while the report is built
MultiReportThrows(analysis) ==
    \/ analysis.angle_comparisons.t # "array"
    \/ ~analysis.product_identification.present
    \/ ~analysis.overall_assessment.present
    \/ ~analysis.technical_analysis.present

\* analyzeMultipleImages from the reply text to its return or throw
AfterAnalysis(reply, np, nd) ==
    IF ~ParsesToObject(reply) THEN MultiReject(MultiParseError)
    ELSE IF MultiReportThrows(reply.obj) THEN MultiReject(TypeError)
    ELSE MultiResolve(MultiReport(reply.obj, np, nd))

\* analyzeMultipleImages after `await callGemini(analysisPrompt, allImages)`
AnalysisStep(call, np, nd) ==
    IF call.ok THEN AfterAnalysis(call.text[1], np, nd) ELSE MultiReject(call.thrown[1])

---------------------------------------------------------------------------
(* analyzeMultipleImages as steps of the event loop *)

\* Promise.all's slots before any read has finished
EmptySlots(n) == [i \in 1..n |-> <<>>]

\* variant of ResolveSlot that collects values in completion order
\* (results.push(value)); Claim_C9 must reject it
ResolveSlotInCompletionOrder(filled, i, value) ==
    LET free == {k \in 1..Len(filled) : filled[k] = <<>>}
        first == CHOOSE k \in free : \A j \in free : k <= j
    IN [filled EXCEPT ![first] = value]

\* Promise.all stores a fulfilled value at the index of its promise
ResolveSlot(filled, i, value) == [filled EXCEPT ![i] = value]

\* [...packagingBase64, ...deliveryBase64]
AllImages(packaging, delivery) == packaging \o delivery

\* analyzeMultipleImages is called: every packaging read is started
AnalyzeMultipleImages ==
    /\ service = "multi"
    /\ pc = "start"
    /\ pc' = "readPackaging"
    /\ pending' = 1..Len(packagingImages)
    /\ slots' = EmptySlots(Len(packagingImages))
    /\ reads' = reads + Len(packagingImages)
    /\ UNCHANGED <<service, fileType, packagingImages, deliveryImages, packagingBase64,
                   deliveryBase64, requests, inflight, responses, identification,
                   result, error>>
    /\ UNCHANGED otherServiceVars

\* one packaging read ends.  A failed read rejects Promise.all at once;
\* the last successful read fulfils it and every delivery read is started
PackagingBatchRead ==
    /\ service = "multi"
    /\ pc = "readPackaging"
    /\ \E i \in pending :
         IF ReaderLoads(packagingImages[i])
         THEN LET filled == ResolveSlot(slots, i, convertImageToBase64(packagingImages[i]))
              IN IF pending = {i}
                 THEN /\ packagingBase64' = filled
                      /\ pc' = "readDelivery"
                      /\ pending' = 1..Len(deliveryImages)
                      /\ slots' = EmptySlots(Len(deliveryImages))
                      /\ reads' = reads + Len(deliveryImages)
                      /\ UNCHANGED error
                 ELSE /\ slots' = filled
                      /\ pending' = pending \ {i}
                      /\ UNCHANGED <<pc, packagingBase64, reads, error>>
         ELSE /\ error' = <<MultiOuterCatch(ProgressEvent)>>
              /\ pc' = "failed"
              /\ pending' = pending \ {i}
              /\ UNCHANGED <<slots, packagingBase64, reads>>
    /\ UNCHANGED <<service, fileType, packagingImages, deliveryImages, deliveryBase64,
                   requests, inflight, responses, identification, result>>
    /\ UNCHANGED otherServiceVars

\* one delivery read ends; the last successful one fulfils Promise.all and
\* the request is assembled and sent
DeliveryBatchRead ==
    /\ service = "multi"
    /\ pc = "readDelivery"
    /\ \E i \in pending :
         IF ReaderLoads(deliveryImages[i])
         THEN LET filled == ResolveSlot(slots, i, convertImageToBase64(deliveryImages[i]))
              IN IF pending = {i}
                 THEN LET sent == <<MultiRequestBody(
                                      analysisPrompt(Len(packagingImages), Len(deliveryImages)),
                                      AllImages(packagingBase64, filled))>>
                      IN /\ deliveryBase64' = filled
                         /\ slots' = filled
                         /\ pending' = {}
                         /\ requests' = requests \o sent
                         /\ inflight' = inflight \cup NewIndices(requests, sent)
                         /\ pc' = "analyzing"
                         /\ UNCHANGED error
                 ELSE /\ slots' = filled
                      /\ pending' = pending \ {i}
                      /\ UNCHANGED <<pc, deliveryBase64, requests, inflight, error>>
         ELSE /\ error' = <<MultiOuterCatch(ProgressEvent)>>
              /\ pc' = "failed"
              /\ pending' = pending \ {i}
              /\ UNCHANGED <<slots, deliveryBase64, requests, inflight>>
    /\ UNCHANGED <<service, fileType, packagingImages, deliveryImages, packagingBase64,
                   reads, responses, identification, result>>
    /\ UNCHANGED otherServiceVars

\* a read of the batch ends after Promise.all has already rejected: its
\* outcome is dropped
LateRead ==
    /\ service = "multi"
    /\ pc = "failed"
    /\ \E i \in pending : pending' = pending \ {i}
    /\ UNCHANGED <<service, pc, fileType, packagingImages, deliveryImages, slots,
                   packagingBase64, deliveryBase64, reads, requests, inflight,
                   responses, identification, result, error>>
    /\ UNCHANGED otherServiceVars

\* the response arrives: callGemini finishes, the reply is parsed and the
\* report is built, up to the return or a throw
AnalysisResponse ==
    /\ service = "multi"
    /\ pc = "analyzing"
    /\ 1 \in inflight
    /\ \E resp \in Responses(MultiReplies, NoMultiReply) :
         LET call == callGeminiMulti(resp)
             step == AnalysisStep(call, Len(packagingImages), Len(deliveryImages))
         IN /\ responses' = Append(responses, resp)
            /\ inflight' = inflight \ {1}
            /\ result' = step.value
            /\ error' = step.thrown
            /\ pc' = IF step.kind = "return" THEN "done" ELSE "failed"
    /\ UNCHANGED <<service, fileType, packagingImages, deliveryImages, pending, slots,
                   packagingBase64, deliveryBase64, reads, requests, identification>>
    /\ UNCHANGED otherServiceVars

---------------------------------------------------------------------------
(* Local fallback analyzer: files, captions and the pixel comparison *)

\* the decoded content of an image file: the first `lit` pixels of the
\* resized canvas have the colour rgb, the others are black; a file that is
\* no image does not decode
Picture(decodes, lit, rgb) == [decodes |-> decodes, lit |-> lit, rgb |-> rgb]
NoPicture == Picture(FALSE, 0, <<0, 0, 0>>)

\* canvas1.width = canvas1.height = size
size == 100

\* the pictures of the model: black, white, grey, red, and white on the
\* first 50 or the first 5000 pixels
Pictures ==
    {Picture(TRUE, lit, rgb) :
        lit \in {size * size}, rgb \in {<<0, 0, 0>>, <<255, 255, 255>>,
                                        <<128, 128, 128>>, <<255, 0, 0>>}}
    \cup {Picture(TRUE, lit, <<255, 255, 255>>) : lit \in {50, 5000}}

HFFile(ok, picture) == [readable |-> ok, picture |-> picture]
\* a file is unreadable, readable but no image, or a readable image
HFFiles ==
    {HFFile(FALSE, NoPicture), HFFile(TRUE, NoPicture)}
    \cup {HFFile(TRUE, p) : p \in Pictures}

\* reader.result: the whole data URL of the file
hfConvertImageToBase64(file) == [scheme |-> "data:", picture |-> file.picture]

\* ctx.getImageData(0, 0, size, size).data as runs of equal pixels
ImageData(picture) ==
    SelectSeq(<<[count |-> picture.lit, rgb |-> picture.rgb],
                [count |-> size * size - picture.lit, rgb |-> <<0, 0, 0>>]>>,
              LAMBDA run : run.count > 0)

Abs(x) == IF x < 0 THEN 0 - x ELSE x
Min(a, b) == IF a < b THEN a ELSE b
Max(a, b) == IF a > b THEN a ELSE b

\* the loop over data1 and data2: the red, green and blue differences of
\* every pixel, summed
RECURSIVE PixelDifference(_, _)
PixelDifference(data1, data2) ==
    IF data1 = <<>> \/ data2 = <<>> THEN 0
    ELSE LET n == Min(data1[1].count, data2[1].count)
             rest(data) == IF data[1].count = n THEN Tail(data)
                           ELSE <<[data[1] EXCEPT !.count = @ - n]>> \o Tail(data)
         IN n * (Abs(data1[1].rgb[1] - data2[1].rgb[1])
                 + Abs(data1[1].rgb[2] - data2[1].rgb[2])
                 + Abs(data1[1].rgb[3] - data2[1].rgb[3]))
            + PixelDifference(rest(data1), rest(data2))

\* Math.round of the non-negative fraction num / den: halves round up
MathRound(num, den) == (2 * num + den) \div (2 * den)

\* variant of SimilarityOfDifference that forgets the `1 -`
\* (`similarity = Math.max(0, (diff / maxDiff) * 100)`); Claim_C17 must
\* reject it
DifferencePercentage(diff) ==
    LET maxDiff == size * size * 3 * 255
    IN MathRound(Max(0, diff * 100), maxDiff)

\* Math.round(Math.max(0, (1 - diff / maxDiff) * 100))
SimilarityOfDifference(diff) ==
    LET maxDiff == size * size * 3 * 255
    IN MathRound(Max(0, (maxDiff - diff) * 100), maxDiff)

\* the value onLoad resolves with once both images are drawn
PixelSimilarity(img1Base64, img2Base64) ==
    SimilarityOfDifference(PixelDifference(ImageData(img1Base64.picture),
                                           ImageData(img2Base64.picture)))

\* the captions the captioning model can give, as their words
Captions ==
    {<<"a", "white", "Toaster", "oven", "with", "bread">>,
     <<"a", "white", "toaster", "oven", "with", "toast">>,
     <<"a", "red", "kettle">>}

\* a response to a captioning request; text is result[0].generated_text
HFResponse(kind, ok, status, body, text) ==
    [kind |-> kind, ok |-> ok, status |-> status, body |-> body, text |-> text]
\* fetch rejects; the status is not 2xx; the body is not JSON, is null, is an
\* empty list, or is a list whose first entry has a generated_text that is
\* absent, empty, a caption or a number
HFResponses ==
    {HFResponse("network_error", FALSE, 0, "none", Undefined),
     HFResponse("http", FALSE, 503, "none", Undefined)}
    \cup {HFResponse("http", TRUE, 200, b, Undefined) :
            b \in {"not_json", "null", "empty_list"}}
    \cup {HFResponse("http", TRUE, 200, "list", v) :
            v \in {Undefined, JSStr(<<>>), JSNum(5)} \cup {JSStr(c) : c \in Captions}}

\* the request failed: fetch rejected, the status was not ok, or reading the
\* body as JSON failed
CaptionRequestFailed(resp) ==
    resp.kind = "network_error" \/ ~resp.ok \/ resp.body = "not_json"

\* variant of analyzeImageWithHuggingFace whose catch only logs
\* (`catch (error) { console.error(...) }`), so that a failed request gives
\* undefined; Claim_C18 must reject it
analyzeImageWithHuggingFaceLogOnly(resp) ==
    IF CaptionRequestFailed(resp) \/ resp.body = "null"
    THEN Undefined
    ELSE IF resp.body = "list" /\ Truthy(resp.text)
         THEN resp.text
         ELSE JSStr(<<"Unable", "to", "analyze", "image">>)

\* the value analyzeImageWithHuggingFace returns: whatever is thrown inside
\* its try block is turned into "Analysis failed"
analyzeImageWithHuggingFace(resp) ==
    IF CaptionRequestFailed(resp) \/ resp.body = "null"
    THEN JSStr(<<"Analysis", "failed">>)
    ELSE IF resp.body = "list" /\ Truthy(resp.text)
         THEN resp.text
         ELSE JSStr(<<"Unable", "to", "analyze", "image">>)

\* word.toLowerCase() on the words of the model
ToLowerCase(word) ==
    CASE word = "Toaster" -> "toaster"
      [] word = "Analysis" -> "analysis"
      [] word = "Unable" -> "unable"
      [] OTHER -> word

\* description.toLowerCase().split(" ")
Words(description) == [i \in 1..Len(description.s) |-> ToLowerCase(description.s[i])]

\* packagingWords.filter(word => deliveryWords.includes(word) && word.length > 3)
CommonWords(packagingWords, deliveryWords) ==
    SelectSeq(packagingWords,
              LAMBDA word : (\E i \in 1..Len(deliveryWords) : deliveryWords[i] = word)
                            /\ Len(word) > 3)

\* Math.round(Math.min(95, Math.max(60, commonWords.length * 15 +
\* similarityPercentage * 0.3))), computed in tenths
ConfidenceScore(commonWords, similarityPercentage) ==
    MathRound(Min(950, Max(600, Len(commonWords) * 150 + similarityPercentage * 3)), 10)

\* the object of the return statement
HFReport(packagingDescription, deliveryDescription, similarityPercentage) ==
    LET commonWords == CommonWords(Words(packagingDescription),
                                   Words(deliveryDescription))
        areProductsSame == Len(commonWords) > 2 \/ similarityPercentage > 70
    IN [packagingProduct |-> packagingDescription,
        deliveryProduct |-> deliveryDescription,
        areProductsSame |-> areProductsSame,
        similarityPercentage |-> similarityPercentage,
        differences |->
            (IF similarityPercentage < 90
             THEN <<<<"Visual similarity: ", ToString(similarityPercentage),
                      "% - some differences detected">>>>
             ELSE <<>>)
            \o (IF Len(commonWords) < 3
                THEN <<<<"Product descriptions have limited overlap">>>>
                ELSE <<>>),
        summary |->
            IF areProductsSame
            THEN <<"Both images appear to show similar products. Packaging shows: ">>
                 \o packagingDescription.s \o <<". Delivery shows: ">>
                 \o deliveryDescription.s
                 \o <<". Similarity score: ", ToString(similarityPercentage), "%">>
            ELSE <<"Images show different products. Packaging: ">>
                 \o packagingDescription.s \o <<". Delivery: ">>
                 \o deliveryDescription.s
                 \o <<". This may indicate a delivery mismatch.">>,
        visualDifferences |->
            <<"Pixel-based similarity: ", ToString(similarityPercentage), "%">>,
        confidenceScore |-> ConfidenceScore(commonWords, similarityPercentage),
        technicalAnalysis |->
            [common_words |-> commonWords, pixel_similarity |-> similarityPercentage,
             method |-> "huggingface_blip"]]

\* the error of analyzeImagesWithHuggingFace's catch, whatever was caught
HFError == NewError(<<"Failed to analyze images. Please try again.">>)

\* the code after `await calculateImageSimilarity(...)`: toLowerCase exists
\* on strings only
HFAfterSimilarity(packagingDescription, deliveryDescription, similarityPercentage) ==
    IF packagingDescription.t # "string" \/ deliveryDescription.t # "string"
    THEN [kind |-> "throw", value |-> <<>>, thrown |-> <<HFError>>]
    ELSE [kind |-> "return",
          value |-> <<HFReport(packagingDescription, deliveryDescription,
                               similarityPercentage)>>,
          thrown |-> <<>>]

---------------------------------------------------------------------------
(* Local fallback analyzer: analyzeImagesWithHuggingFace *)

\* the call settles with the outcome of the code after the last await
HFSettle(step) ==
    /\ hfResult' = step.value
    /\ hfError' = step.thrown
    /\ hfPc' = IF step.kind = "return" THEN "done" ELSE "failed"

\* analyzeImagesWithHuggingFace is called: the packaging read is started
AnalyzeImagesWithHuggingFace ==
    /\ hfPc = "start"
    /\ hfPc' = "readPackaging"
    /\ UNCHANGED <<hfFiles, hfBase64, hfPending, hfResponses, hfDescriptions,
                   hfContext, hfDecoding, loadedCount, hfSimilarity, hfResult,
                   hfError>>
    /\ UNCHANGED notHuggingFaceVars

\* a file read ends: after the packaging read the delivery read is started,
\* after the delivery read both captioning requests are sent; a failed read
\* is caught by the outer catch
HFRead ==
    /\ hfPc \in {"readPackaging", "readDelivery"}
    /\ LET file == hfFiles[Len(hfBase64) + 1]
       IN IF file.readable
          THEN /\ hfBase64' = Append(hfBase64, hfConvertImageToBase64(file))
               /\ IF hfPc = "readPackaging"
                  THEN hfPc' = "readDelivery" /\ UNCHANGED hfPending
                  ELSE hfPc' = "captioning" /\ hfPending' = {1, 2}
               /\ UNCHANGED hfError
          ELSE /\ hfError' = <<HFError>>
               /\ hfPc' = "failed"
               /\ UNCHANGED <<hfBase64, hfPending>>
    /\ UNCHANGED <<hfFiles, hfResponses, hfDescriptions, hfContext, hfDecoding,
                   loadedCount, hfSimilarity, hfResult>>
    /\ UNCHANGED notHuggingFaceVars

\* one captioning request ends, in either order.  After the second,
\* Promise.all is fulfilled and calculateImageSimilarity is called: without
\* a 2d context it returns 50 and the report is built, otherwise both
\* images are given their src and the call waits for their events
CaptionResponse ==
    /\ hfPc = "captioning"
    /\ \E i \in hfPending, resp \in HFResponses :
         LET descriptions ==
                 [hfDescriptions EXCEPT ![i] = <<analyzeImageWithHuggingFace(resp)>>]
         IN /\ hfResponses' = [hfResponses EXCEPT ![i] = <<resp>>]
            /\ hfDescriptions' = descriptions
            /\ hfPending' = hfPending \ {i}
            /\ IF hfPending # {i}
               THEN UNCHANGED <<hfPc, hfDecoding, hfSimilarity, hfResult, hfError>>
               ELSE IF hfContext
                    THEN /\ hfPc' = "comparing"
                         /\ hfDecoding' = {1, 2}
                         /\ UNCHANGED <<hfSimilarity, hfResult, hfError>>
                    ELSE /\ hfSimilarity' = <<50>>
                         /\ HFSettle(HFAfterSimilarity(descriptions[1][1],
                                                       descriptions[2][1], 50))
                         /\ UNCHANGED hfDecoding
    /\ UNCHANGED <<hfFiles, hfBase64, hfContext, loadedCount>>
    /\ UNCHANGED notHuggingFaceVars

\* resolve(value) of calculateImageSimilarity's promise: the first call
\* settles the promise and the report is built; later calls change nothing
HFResolve(value) ==
    /\ hfSimilarity' = Append(hfSimilarity, value)
    /\ IF hfSimilarity = <<>>
       THEN HFSettle(HFAfterSimilarity(hfDescriptions[1][1], hfDescriptions[2][1],
                                       value))
       ELSE UNCHANGED <<hfPc, hfResult, hfError>>

\* variant of BothLoaded that compares as soon as one image has loaded
\* (`if (loadedCount >= 1)`); Claim_C30 must reject it
AnyLoaded(count) == count >= 1

\* `if (loadedCount === 2)`
BothLoaded(count) == count = 2

\* the load event of one image (onLoad): the second load draws both images
\* and resolves with their similarity
ImageLoad ==
    /\ \E i \in hfDecoding :
         /\ hfBase64[i].picture.decodes
         /\ hfDecoding' = hfDecoding \ {i}
         /\ loadedCount' = loadedCount + 1
         /\ IF BothLoaded(loadedCount + 1)
            THEN HFResolve(PixelSimilarity(hfBase64[1], hfBase64[2]))
            ELSE UNCHANGED <<hfSimilarity, hfPc, hfResult, hfError>>
    /\ UNCHANGED <<hfFiles, hfBase64, hfPending, hfResponses, hfDescriptions,
                   hfContext>>
    /\ UNCHANGED notHuggingFaceVars

\* the error event of one image: resolve(50)
ImageError ==
    /\ \E i \in hfDecoding :
         /\ ~hfBase64[i].picture.decodes
         /\ hfDecoding' = hfDecoding \ {i}
         /\ HFResolve(50)
    /\ UNCHANGED <<hfFiles, hfBase64, hfPending, hfResponses, hfDescriptions,
                   hfContext, loadedCount>>
    /\ UNCHANGED notHuggingFaceVars

---------------------------------------------------------------------------
(* Python image processor: initializePyodide and processImagesWithPython *)

\* the largest number of calls of processImagesWithPython under way at once
MaxCalls == 2
Calls == 1..MaxCalls

\* the polls for window.loadPyodide before initializePyodide gives up
\* (`attempts < 50` in the source, fewer here)
MaxAttempts == 1

\* the images a caller may pass
PyImages == {"imageA", "imageB"}

\* the Python globals of a fresh interpreter: nothing set yet
FreshGlobals == [img1_base64 |-> <<>>, img2_base64 |-> <<>>, result |-> <<>>]

\* the dictionary compare_images_advanced returns for two images
compare_images_advanced(base64_img1, base64_img2) ==
    [of |-> <<base64_img1, base64_img2>>,
     identical |-> base64_img1 = base64_img2]

\* the catch of initializePyodide wraps whatever was thrown
InitializeError(thrown) ==
    NewError(<<"Failed to initialize Python image processing: ", "Error: ", thrown>>)

\* variant of GlobalsAtRun in which the comparison runs on the globals as
\* they were before this call set them; Claim_C20 must reject it
GlobalsBeforeSet(before, after) == before

\* runPython follows the two globals.set calls without an await between
\* them: it reads the globals as this call has just set them
GlobalsAtRun(before, after) == after

\* the body of processImagesWithPython after `await initializePyodide()`:
\* the new globals of the interpreter and the JSON text runPython returns
RunComparison(globals, img1Base64, img2Base64) ==
    LET set == [globals EXCEPT !.img1_base64 = <<img1Base64>>,
                               !.img2_base64 = <<img2Base64>>]
        read == GlobalsAtRun(globals, set)
        compared == compare_images_advanced(read.img1_base64, read.img2_base64)
    IN [globals |-> [set EXCEPT !.result = <<compared>>], json |-> compared]

\* initializePyodide fails in call c with the given message
InitializeFails(c, thrown) ==
    /\ pyPc' = [pyPc EXCEPT ![c] = "failed"]
    /\ pyError' = [pyError EXCEPT ![c] = <<InitializeError(thrown)>>]

\* the loop `while (!window.loadPyodide && attempts < 50)` and what follows
\* it, for call c with n polls done: poll again, give up, or call loadPyodide
PollOrLoad(c, n) ==
    IF ~loadPyodide /\ n < MaxAttempts
    THEN pyPc' = [pyPc EXCEPT ![c] = "polling"] /\ UNCHANGED pyError
    ELSE IF ~loadPyodide
         THEN InitializeFails(c, "Pyodide failed to load after 5 seconds")
         ELSE pyPc' = [pyPc EXCEPT ![c] = "loading"] /\ UNCHANGED pyError

\* the script that defines window.loadPyodide finishes loading
ScriptLoads ==
    /\ ~loadPyodide
    /\ loadPyodide' = TRUE
    /\ UNCHANGED <<pyodideInstance, interpreters, pyPc, pyArgs, attempts, pyodide,
                   pyResult, pyError>>
    /\ UNCHANGED notPyodideVars

\* processImagesWithPython is called: initializePyodide runs up to its first
\* await, or returns the existing interpreter
ProcessImagesWithPython ==
    /\ \E c \in Calls, img1Base64 \in PyImages, img2Base64 \in PyImages :
         /\ pyPc[c] = "idle"
         /\ \A b \in Calls : b < c => pyPc[b] # "idle"
         /\ pyArgs' = [pyArgs EXCEPT ![c] = <<img1Base64, img2Base64>>]
         /\ IF pyodideInstance # 0
            THEN /\ pyodide' = [pyodide EXCEPT ![c] = pyodideInstance]
                 /\ pyPc' = [pyPc EXCEPT ![c] = "ready"]
                 /\ UNCHANGED pyError
            ELSE /\ PollOrLoad(c, 0)
                 /\ UNCHANGED pyodide
    /\ UNCHANGED <<pyodideInstance, loadPyodide, interpreters, attempts, pyResult>>
    /\ UNCHANGED notPyodideVars

\* the 100 ms timer of one poll fires
Poll ==
    /\ \E c \in Calls :
         /\ pyPc[c] = "polling"
         /\ attempts' = [attempts EXCEPT ![c] = @ + 1]
         /\ PollOrLoad(c, attempts[c] + 1)
    /\ UNCHANGED <<pyodideInstance, loadPyodide, interpreters, pyArgs, pyodide,
                   pyResult>>
    /\ UNCHANGED notPyodideVars

\* loadPyodide settles: with a new interpreter, or with an error
LoadPyodide ==
    /\ \E c \in Calls, ok \in BOOLEAN :
         /\ pyPc[c] = "loading"
         /\ IF ok
            THEN /\ interpreters' = Append(interpreters, FreshGlobals)
                 /\ pyodide' = [pyodide EXCEPT ![c] = Len(interpreters) + 1]
                 /\ pyPc' = [pyPc EXCEPT ![c] = "packages"]
                 /\ UNCHANGED pyError
            ELSE /\ InitializeFails(c, "loadPyodide failed")
                 /\ UNCHANGED <<interpreters, pyodide>>
    /\ UNCHANGED <<pyodideInstance, loadPyodide, pyArgs, attempts, pyResult>>
    /\ UNCHANGED notPyodideVars

\* loadPackage(["numpy", "pillow"]) settles
LoadPackage ==
    /\ \E c \in Calls, ok \in BOOLEAN :
         /\ pyPc[c] = "packages"
         /\ IF ok
            THEN pyPc' = [pyPc EXCEPT ![c] = "scikit"] /\ UNCHANGED pyError
            ELSE InitializeFails(c, "Failed to install required Python packages")
    /\ UNCHANGED <<pyodideInstance, loadPyodide, interpreters, pyArgs, attempts,
                   pyodide, pyResult>>
    /\ UNCHANGED notPyodideVars

\* loadPackage(["scikit-image"]) settles; either way the Python functions
\* are defined, the interpreter is stored and initializePyodide returns it
LoadScikit ==
    /\ \E c \in Calls :
         /\ pyPc[c] = "scikit"
         /\ pyodideInstance' = pyodide[c]
         /\ pyPc' = [pyPc EXCEPT ![c] = "ready"]
    /\ UNCHANGED <<loadPyodide, interpreters, pyArgs, attempts, pyodide, pyResult,
                   pyError>>
    /\ UNCHANGED notPyodideVars

\* processImagesWithPython resumes after `await initializePyodide()`: both
\* globals are set, the comparison is run and its JSON text is parsed and
\* returned, or the catch throws its own error
Compare ==
    /\ \E c \in Calls, parses \in BOOLEAN :
         /\ pyPc[c] = "ready"
         /\ LET run == RunComparison(interpreters[pyodide[c]], pyArgs[c][1],
                                     pyArgs[c][2])
            IN /\ interpreters' = [interpreters EXCEPT ![pyodide[c]] = run.globals]
               /\ IF parses
                  THEN /\ pyResult' = [pyResult EXCEPT ![c] = <<run.json>>]
                       /\ pyPc' = [pyPc EXCEPT ![c] = "done"]
                       /\ UNCHANGED pyError
                  ELSE /\ pyError' = [pyError EXCEPT ![c] =
                              <<NewError(<<"Python image processing failed">>)>>]
                       /\ pyPc' = [pyPc EXCEPT ![c] = "failed"]
                       /\ UNCHANGED pyResult
    /\ UNCHANGED <<pyodideInstance, loadPyodide, pyArgs, attempts, pyodide>>
    /\ UNCHANGED notPyodideVars

---------------------------------------------------------------------------
(* Reply parsing, character by character *)
(* A reply text is a sequence of pieces: an opening brace, a closing brace, *)
(* a double quote, a piece of JSON content without braces or quotes (a     *)
(* number, a colon, a comma, a key or value already read), and a piece of  *)
(* prose that is no JSON.                                                  *)

\* the longest reply text of the model
MaxLen == 5

Pieces == {"{", "}", "quote", "json", "prose"}
Texts == UNION {[1..n -> Pieces] : n \in 0..MaxLen}

\* text.indexOf(c) and text.lastIndexOf(c), counted from 1; 0 when absent
IndexOf(text, c) ==
    IF \E i \in 1..Len(text) : text[i] = c
    THEN CHOOSE i \in 1..Len(text) : text[i] = c /\ \A k \in 1..(i - 1) : text[k] # c
    ELSE 0
LastIndexOf(text, c) ==
    IF \E i \in 1..Len(text) : text[i] = c
    THEN CHOOSE i \in 1..Len(text) :
             text[i] = c /\ \A k \in (i + 1)..Len(text) : text[k] # c
    ELSE 0

\* variant of EndOfMatch for the lazy pattern /\{[\s\S]*?\}/: the match
\* ends at the first closing brace after its start; Claim_C15 must reject it
EndOfLazyMatch(text, start) ==
    LET after == {i \in (start + 1)..Len(text) : text[i] = "}"}
    IN IF after = {} THEN 0 ELSE CHOOSE i \in after : \A k \in after : i <= k

\* where the match of /\{[\s\S]*\}/ that starts at `start` ends: `*` is
\* greedy, so at the last closing brace of the text
EndOfMatch(text, start) == LastIndexOf(text, "}")

\* text.match(/\{[\s\S]*\}/): jsonMatch[0], or <<>> for null
Match(text) ==
    LET start == IndexOf(text, "{")
        end == IF start = 0 THEN 0 ELSE EndOfMatch(text, start)
    IN IF start = 0 \/ end < start THEN <<>> ELSE SubSeq(text, start, end)

\* a piece of the parsed object: what it is, how deep it is nested, and
\* whether it is part of a string
Parsed(piece, depth, quoted) == [piece |-> piece, depth |-> depth, quoted |-> quoted]
SyntaxError == [ok |-> FALSE, value |-> <<>>]

\* JSON.parse from position i on, inside `depth` open objects, inside a
\* string or not, with the pieces read so far
RECURSIVE JSONScan(_, _, _, _, _)
JSONScan(text, i, depth, quoted, read) ==
    IF i > Len(text)
    THEN IF depth = 0 /\ ~quoted /\ Len(text) > 0
         THEN [ok |-> TRUE, value |-> read]
         ELSE SyntaxError
    ELSE LET c == text[i]
         IN IF quoted
            THEN JSONScan(text, i + 1, depth, c # "quote",
                          Append(read, Parsed(c, depth, c # "quote")))
            ELSE IF depth = 0 /\ i > 1 THEN SyntaxError
            ELSE IF c = "{"
                 THEN JSONScan(text, i + 1, depth + 1, FALSE,
                               Append(read, Parsed(c, depth + 1, FALSE)))
            ELSE IF depth = 0 \/ c = "prose" THEN SyntaxError
            ELSE IF c = "}"
                 THEN JSONScan(text, i + 1, depth - 1, FALSE,
                               Append(read, Parsed(c, depth, FALSE)))
            ELSE JSONScan(text, i + 1, depth, c = "quote",
                          Append(read, Parsed(c, depth, FALSE)))

\* JSON.parse(jsonMatch[0])
JSONParse(text) == JSONScan(text, 1, 0, FALSE, <<>>)

\* the try block of the parsing step: the shape of the reply, and the
\* object when there is one
ParseReply(text) ==
    LET jsonMatch == Match(text)
        object == JSONParse(jsonMatch)
    IN IF jsonMatch = <<>>
       THEN [shape |-> "no_braces", ok |-> FALSE, value |-> <<>>]
       ELSE IF object.ok
            THEN [shape |-> "object", ok |-> TRUE, value |-> object.value]
            ELSE [shape |-> "malformed", ok |-> FALSE, value |-> <<>>]

\* the parsing step runs on the reply text
ParseReplyText ==
    /\ parsed = <<>>
    /\ parsed' = <<ParseReply(replyText)>>
    /\ UNCHANGED replyText
    /\ UNCHANGED notParserVars


---------------------------------------------------------------------------
(* The pages and their upload widgets *)

\* most files one change event of a file input carries
MaxSelect == 2

\* most analyses started on a page in one behaviour
MaxAnalyses == 2

Sides == {"packaging", "delivery"}

PageKinds == {"single", "multi"}

\* the files the file dialog offers; a type is <<prefix, subtype>>
PageFiles ==
    { [name |-> "a.jpg", type |-> <<"image/", "jpeg">>],
      [name |-> "b.png", type |-> <<"image/", "png">>],
      [name |-> "c.pdf", type |-> <<"application/", "pdf">>] }

\* a folder with one photo and one document
OnePhotoFolder == {file \in PageFiles : file.name \in {"a.jpg", "c.pdf"}}

\* event.target.files of a change event, the dialog showing a folder
Selections(folder) == UNION {[1..n -> folder] : n \in 1..MaxSelect}

\* file.type.startsWith("image/")
IsImageFile(file) == file.type[1] = "image/"

\* Array.prototype.filter with the predicate of handleFileSelect
RECURSIVE ImageFilesOf(_)
ImageFilesOf(files) ==
    IF files = <<>> THEN <<>>
    ELSE (IF IsImageFile(Head(files)) THEN <<Head(files)>> ELSE <<>>)
             \o ImageFilesOf(Tail(files))

\* URL.createObjectURL(file): a URL that resolves to the file
createObjectURL(file) == [blob |-> file]

\* the default of the maxImages prop, which the page passes as well
maxImages == 5

\* Array.prototype.slice(0, end)
Slice(list, end) == SubSeq(list, 1, IF Len(list) < end THEN Len(list) ELSE end)

\* [...selectedImages, ...imageFiles] with no limit
AllOfThem(selected, imageFiles) == selected \o imageFiles

\* handleFileSelect's newImages
LimitToMaxImages(selected, imageFiles) == Slice(selected \o imageFiles, maxImages)

\* list.filter((_, i) => i !== index), index counted from 0
FilterOutIndex(list, index) ==
    [k \in 1..(Len(list) - (IF index < Len(list) THEN 1 ELSE 0)) |->
        IF k <= index THEN list[k] ELSE list[k + 1]]

\* the list without its last entry
WithoutLast(urls, index) == SubSeq(urls, 1, Len(urls) - 1)

\* handleRemoveImage's newUrls
UrlsAfterRemove(urls, index) == FilterOutIndex(urls, index)

\* canAddMore of MultiImageUploader
canAddMore(side) == Len(selectedImages[side]) < maxImages

\* whether the widget of a side shows its upload area (or "Add More")
UploadAreaShown(side) ==
    IF pageKind = "multi"
    THEN Len(selectedImages[side]) = 0 \/ canAddMore(side)
    ELSE previewUrls[side] = <<>>

\* the change event of a side's file input
handleFileSelect(side, files) ==
    /\ pageKind \in PageKinds
    /\ UploadAreaShown(side)
    /\ IF pageKind = "multi"
       THEN LET imageFiles == ImageFilesOf(files)
                newImages == LimitToMaxImages(selectedImages[side], imageFiles)
                newUrls == [k \in 1..Len(newImages) |-> createObjectURL(newImages[k])]
            IN  /\ selectedImages' = [selectedImages EXCEPT ![side] = newImages]
                /\ previewUrls' = [previewUrls EXCEPT ![side] = newUrls]
       ELSE LET file == files[1]
            IN  IF IsImageFile(file)
                THEN /\ selectedImages' = [selectedImages EXCEPT ![side] = <<file>>]
                     /\ previewUrls' =
                            [previewUrls EXCEPT ![side] = <<createObjectURL(file)>>]
                ELSE UNCHANGED <<selectedImages, previewUrls>>
    /\ UNCHANGED <<pageKind, isAnalyzing, analysisProgress, results, pageError,
                   analyses, analysisCalls, progressIntervals, publishTimeouts>>
    /\ UNCHANGED notPageVars

\* a click on the remove button of preview number index (from 0)
handleRemoveImage(side, index) ==
    /\ pageKind \in PageKinds
    /\ IF pageKind = "multi"
       THEN /\ Len(selectedImages[side]) > 0
            /\ index < Len(previewUrls[side])
            /\ selectedImages' =
                   [selectedImages EXCEPT
                        ![side] = FilterOutIndex(selectedImages[side], index)]
            /\ previewUrls' =
                   [previewUrls EXCEPT
                        ![side] = UrlsAfterRemove(previewUrls[side], index)]
       ELSE /\ previewUrls[side] # <<>>
            /\ index = 0
            /\ selectedImages' = [selectedImages EXCEPT ![side] = <<>>]
            /\ previewUrls' = [previewUrls EXCEPT ![side] = <<>>]
    /\ UNCHANGED <<pageKind, isAnalyzing, analysisProgress, results, pageError,
                   analyses, analysisCalls, progressIntervals, publishTimeouts>>
    /\ UNCHANGED notPageVars

\* packagingImages.length === 0 || deliveryImages.length === 0, and on the
\* single page !packagingImage || !deliveryImage
SomeSideEmpty ==
    \E side \in Sides : Len(selectedImages[side]) = 0

\* the disabled attribute without isAnalyzing
DisabledWhenEmpty(analyzing) == SomeSideEmpty

\* the disabled attribute of the analysis button
disabled(analyzing) == SomeSideEmpty \/ analyzing

\* the amount one tick of the progress timer adds
ProgressStep == IF pageKind = "single" THEN 15 ELSE 10

\* a click on the analysis button: handleAnalysis up to its await
handleAnalysis ==
    /\ pageKind \in PageKinds
    /\ analyses < MaxAnalyses
    /\ ~disabled(isAnalyzing)
    /\ IF SomeSideEmpty
       THEN /\ pageError' =
                   <<IF pageKind = "multi"
                     THEN "Please upload at least one image for both packaging and delivery"
                     ELSE "Please upload both packaging and delivery images">>
            /\ UNCHANGED <<isAnalyzing, analysisProgress, results, analyses,
                           analysisCalls, progressIntervals>>
       ELSE /\ isAnalyzing' = TRUE
            /\ pageError' = <<>>
            /\ results' = <<>>
            /\ analysisProgress' = 0
            /\ analyses' = analyses + 1
            /\ progressIntervals' = progressIntervals \cup {analyses + 1}
            /\ analysisCalls' = analysisCalls \cup {analyses + 1}
    /\ UNCHANGED <<pageKind, selectedImages, previewUrls, publishTimeouts>>
    /\ UNCHANGED notPageVars

\* one run of the setInterval callback of analysis id
ProgressTick(id) ==
    /\ id \in progressIntervals
    /\ IF analysisProgress >= 90
       THEN /\ progressIntervals' = progressIntervals \ {id}
            /\ analysisProgress' = 90
       ELSE /\ analysisProgress' = analysisProgress + ProgressStep
            /\ UNCHANGED progressIntervals
    /\ UNCHANGED <<pageKind, selectedImages, previewUrls, isAnalyzing, results,
                   pageError, analyses, analysisCalls, publishTimeouts>>
    /\ UNCHANGED notPageVars

\* the analyzer's promise fulfils: handleAnalysis from its await to its end
AnalysisResolves(id) ==
    /\ id \in analysisCalls
    /\ analysisCalls' = analysisCalls \ {id}
    /\ progressIntervals' = progressIntervals \ {id}
    /\ analysisProgress' = 100
    /\ publishTimeouts' = publishTimeouts \cup {id}
    /\ UNCHANGED <<pageKind, selectedImages, previewUrls, isAnalyzing, results,
                   pageError, analyses>>
    /\ UNCHANGED notPageVars

\* the analyzer's promise rejects: the catch block of handleAnalysis
AnalysisRejects(id) ==
    /\ id \in analysisCalls
    /\ analysisCalls' = analysisCalls \ {id}
    /\ pageError' = <<"Analysis failed">>
    /\ isAnalyzing' = FALSE
    /\ analysisProgress' = 0
    /\ UNCHANGED <<pageKind, selectedImages, previewUrls, results, analyses,
                   progressIntervals, publishTimeouts>>
    /\ UNCHANGED notPageVars

\* the setTimeout callback of analysis id
PublishResults(id) ==
    /\ id \in publishTimeouts
    /\ publishTimeouts' = publishTimeouts \ {id}
    /\ results' = <<[analysis |-> id]>>
    /\ isAnalyzing' = FALSE
    /\ analysisProgress' = 0
    /\ UNCHANGED <<pageKind, selectedImages, previewUrls, pageError, analyses,
                   analysisCalls, progressIntervals>>
    /\ UNCHANGED notPageVars

---------------------------------------------------------------------------
(* The Python function calculate_similarity_basic *)

\* how many channel values of an image the model keeps (the code's arrays
\* hold 256 * 256 * 3 of them)
Channels == 2

\* the values a channel takes in the model, out of 0..255
ChannelValues == {0, 1, 16, 17, 128, 240, 255}

\* np.array(img) of a resized RGB image, dtype uint8
Arrays == [1..Channels -> ChannelValues]

\* an image string: whether base64_to_image opens it, and its array
SimImages ==
    {[decodes |-> TRUE, arr |-> a] : a \in Arrays}
        \cup {[decodes |-> FALSE, arr |-> <<>>]}

\* the value of an arithmetic result stored in a uint8
Uint8(n) == n % 256

\* one element of (arr1 - arr2) ** 2 in exact integers
ExactSquaredError(a, b) == (a - b) * (a - b)

\* one element of (arr1 - arr2) ** 2 in uint8 arrays
SquaredError(a, b) == Uint8(Uint8(a - b) * Uint8(a - b))

\* the sum np.mean divides (it accumulates in float64)
RECURSIVE SumSquaredError(_, _)
SumSquaredError(arr1, arr2) ==
    IF arr1 = <<>> THEN 0
    ELSE SquaredError(Head(arr1), Head(arr2))
             + SumSquaredError(Tail(arr1), Tail(arr2))

\* max_mse
max_mse == 255 * 255

\* similarities are kept as whole multiples of 1 / SimilarityUnit
SimilarityUnit == Channels * max_mse

\* the default of the except clause, 75.0
DefaultSimilarity == 75 * SimilarityUnit

\* max(0, (1 - mse / max_mse) * 100) for mse = sum / Channels
SimilarityOfSum(sum) ==
    LET value == 100 * (SimilarityUnit - sum)
    IN  IF value > 0 THEN value ELSE 0

calculate_similarity_basic(base64_img1, base64_img2) ==
    IF base64_img1.decodes /\ base64_img2.decodes
    THEN SimilarityOfSum(SumSquaredError(base64_img1.arr, base64_img2.arr))
    ELSE DefaultSimilarity

\* a call of calculate_similarity_basic returns
CalculateSimilarityBasic ==
    /\ similarity = <<>>
    /\ similarityArgs \in SimImages \X SimImages
    /\ similarity' =
           <<calculate_similarity_basic(similarityArgs[1], similarityArgs[2])>>
    /\ UNCHANGED similarityArgs
    /\ UNCHANGED notSimilarityVars

---------------------------------------------------------------------------
(* The specification *)

\* no call of analyzeImagesWithHuggingFace is under way
HuggingFaceIdle ==
    /\ hfPc = "idle"
    /\ hfFiles = <<HFFile(FALSE, NoPicture), HFFile(FALSE, NoPicture)>>
    /\ hfBase64 = <<>>
    /\ hfPending = {}
    /\ hfResponses = <<<<>>, <<>>>>
    /\ hfDescriptions = <<<<>>, <<>>>>
    /\ hfContext = TRUE
    /\ hfDecoding = {}
    /\ loadedCount = 0
    /\ hfSimilarity = <<>>
    /\ hfResult = <<>>
    /\ hfError = <<>>

\* no call of a Gemini service is under way
GeminiIdle ==
    /\ service = "none"
    /\ pc = "idle"
    /\ fileType = "image/jpeg"
    /\ packagingImages = <<>>
    /\ deliveryImages = <<>>
    /\ pending = {}
    /\ slots = <<>>
    /\ packagingBase64 = <<>>
    /\ deliveryBase64 = <<>>
    /\ reads = 0
    /\ requests = <<>>
    /\ inflight = {}
    /\ responses = <<>>
    /\ identification = <<>>
    /\ result = <<>>
    /\ error = <<>>

\* no call of processImagesWithPython has been made
PyodideIdle ==
    /\ pyodideInstance = 0
    /\ loadPyodide = FALSE
    /\ interpreters = <<>>
    /\ pyPc = [c \in Calls |-> "idle"]
    /\ pyArgs = [c \in Calls |-> <<>>]
    /\ attempts = [c \in Calls |-> 0]
    /\ pyodide = [c \in Calls |-> 0]
    /\ pyResult = [c \in Calls |-> <<>>]
    /\ pyError = [c \in Calls |-> <<>>]

\* the reply parser has not been given a text
ParserIdle ==
    /\ replyText = <<>>
    /\ parsed = <<>>

\* no page is shown
PageIdle ==
    /\ pageKind = "none"
    /\ selectedImages = [side \in Sides |-> <<>>]
    /\ previewUrls = [side \in Sides |-> <<>>]
    /\ isAnalyzing = FALSE
    /\ analysisProgress = 0
    /\ results = <<>>
    /\ pageError = <<>>
    /\ analyses = 0
    /\ analysisCalls = {}
    /\ progressIntervals = {}
    /\ publishTimeouts = {}

\* calculate_similarity_basic has not been called
SimilarityIdle ==
    /\ similarityArgs = <<>>
    /\ similarity = <<>>

\* the files of one side: n files in caller order, each readable or not
FileLists(side, n, ty) ==
    {[i \in 1..n |-> File(side, i, ok[i], ty)] : ok \in [1..n -> BOOLEAN]}

Init ==
    /\ service \in {"single", "multi"}
    /\ pc = "start"
    /\ fileType \in FileTypes
    /\ \E np \in 1..MaxImages, nd \in 1..MaxImages :
         /\ service = "single" => np = 1 /\ nd = 1
         /\ packagingImages \in FileLists("packaging", np, fileType)
         /\ deliveryImages \in FileLists("delivery", nd, fileType)
    /\ pending = {}
    /\ slots = <<>>
    /\ packagingBase64 = <<>>
    /\ deliveryBase64 = <<>>
    /\ reads = 0
    /\ requests = <<>>
    /\ inflight = {}
    /\ responses = <<>>
    /\ identification = <<>>
    /\ result = <<>>
    /\ error = <<>>
    /\ HuggingFaceIdle
    /\ PyodideIdle
    /\ ParserIdle
    /\ PageIdle
    /\ SimilarityIdle

Next ==
    \/ AnalyzeImages
    \/ PackagingRead
    \/ DeliveryRead
    \/ IdentificationResponse
    \/ SimilarityResponse
    \/ AnalyzeMultipleImages
    \/ PackagingBatchRead
    \/ DeliveryBatchRead
    \/ LateRead
    \/ AnalysisResponse

Spec == Init /\ [][Next]_vars

\* a call of analyzeImagesWithHuggingFace with any two files, with or
\* without a 2d canvas context
HuggingFaceInit ==
    /\ GeminiIdle
    /\ PageIdle
    /\ SimilarityIdle
    /\ hfPc = "start"
    /\ hfFiles \in HFFiles \X HFFiles
    /\ hfBase64 = <<>>
    /\ hfPending = {}
    /\ hfResponses = <<<<>>, <<>>>>
    /\ hfDescriptions = <<<<>>, <<>>>>
    /\ hfContext \in BOOLEAN
    /\ hfDecoding = {}
    /\ loadedCount = 0
    /\ hfSimilarity = <<>>
    /\ hfResult = <<>>
    /\ hfError = <<>>
    /\ PyodideIdle
    /\ ParserIdle
    /\ PageIdle
    /\ SimilarityIdle

HuggingFaceNext ==
    \/ AnalyzeImagesWithHuggingFace
    \/ HFRead
    \/ CaptionResponse
    \/ ImageLoad
    \/ ImageError

HuggingFaceSpec == HuggingFaceInit /\ [][HuggingFaceNext]_vars

\* the page is open, the Pyodide script still loading; calls are to come
PyodideInit ==
    /\ GeminiIdle
    /\ HuggingFaceIdle
    /\ PyodideIdle
    /\ ParserIdle
    /\ PageIdle
    /\ SimilarityIdle

PyodideNext ==
    \/ ScriptLoads
    \/ ProcessImagesWithPython
    \/ Poll
    \/ LoadPyodide
    \/ LoadPackage
    \/ LoadScikit
    \/ Compare

PyodideSpec == PyodideInit /\ [][PyodideNext]_vars

\* any reply text, about to be parsed
ParserInit ==
    /\ GeminiIdle
    /\ HuggingFaceIdle
    /\ PyodideIdle
    /\ PageIdle
    /\ SimilarityIdle
    /\ replyText \in Texts
    /\ parsed = <<>>

ParserNext == ParseReplyText

ParserSpec == ParserInit /\ [][ParserNext]_vars

\* a freshly mounted page of either kind
PageInit ==
    /\ pageKind \in PageKinds
    /\ selectedImages = [side \in Sides |-> <<>>]
    /\ previewUrls = [side \in Sides |-> <<>>]
    /\ isAnalyzing = FALSE
    /\ analysisProgress = 0
    /\ results = <<>>
    /\ pageError = <<>>
    /\ analyses = 0
    /\ analysisCalls = {}
    /\ progressIntervals = {}
    /\ publishTimeouts = {}
    /\ GeminiIdle
    /\ HuggingFaceIdle
    /\ PyodideIdle
    /\ ParserIdle
    /\ SimilarityIdle

PageNext ==
    \/ \E side \in Sides, files \in Selections(OnePhotoFolder) :
           handleFileSelect(side, files)
    \/ \E side \in Sides, index \in 0..(maxImages - 1) : handleRemoveImage(side, index)
    \/ handleAnalysis
    \/ \E id \in 1..MaxAnalyses : ProgressTick(id)
    \/ \E id \in 1..MaxAnalyses : AnalysisResolves(id)
    \/ \E id \in 1..MaxAnalyses : AnalysisRejects(id)
    \/ \E id \in 1..MaxAnalyses : PublishResults(id)

PageSpec == PageInit /\ [][PageNext]_vars

\* the multi-angle page's two upload widgets, the dialog showing every file
UploaderInit ==
    /\ PageInit
    /\ pageKind = "multi"

UploaderNext ==
    \/ \E side \in Sides, files \in Selections(PageFiles) :
           handleFileSelect(side, files)
    \/ \E side \in Sides, index \in 0..(maxImages - 1) : handleRemoveImage(side, index)

UploaderSpec == UploaderInit /\ [][UploaderNext]_vars

\* calculate_similarity_basic called with any two image strings
SimilarityInit ==
    /\ similarityArgs \in SimImages \X SimImages
    /\ similarity = <<>>
    /\ GeminiIdle
    /\ HuggingFaceIdle
    /\ PyodideIdle
    /\ ParserIdle
    /\ PageIdle

SimilarityNext == CalculateSimilarityBasic

SimilaritySpec == SimilarityInit /\ [][SimilarityNext]_vars

---------------------------------------------------------------------------
(* Properties of analyzeImages *)

\* the k-th response carried a reply text (callGemini returned)
GotReply(k) ==
    /\ Len(responses) >= k
    /\ responses[k].kind = "http"
    /\ responses[k].status = 200
    /\ responses[k].body = "text"

\* the stage-1 reply was parsed and its initial_comparison is an object
Stage1Parsed ==
    /\ service = "single"
    /\ GotReply(1)
    /\ responses[1].reply.shape = "object"
    /\ responses[1].reply.obj.initial_comparison.present

\* stage 1 reported a mismatch / a match
Stage1Mismatch ==
    Stage1Parsed /\ ~Truthy(responses[1].reply.obj.initial_comparison.products_match)
Stage1Match ==
    Stage1Parsed /\ Truthy(responses[1].reply.obj.initial_comparison.products_match)

\* the stage-2 reply text arrived and cannot be parsed
Stage2Unparseable ==
    /\ Stage1Match
    /\ GotReply(2)
    /\ responses[2].reply.shape \in {"no_braces", "malformed"}

\* C1: when stage 1 reports that the products do not match, the whole call
\* issues exactly one vision request; no similarity request is ever sent.
Claim_C1 ==
    Stage1Mismatch => Len(requests) = 1 /\ inflight = {} /\ pc \in {"done", "failed"}

\* a mismatch report has been returned after a single request
Witness_C1 ==
    Stage1Mismatch /\ pc = "done" /\ result # <<>> /\ Len(requests) = 1

\* C2: the stage-2 request is sent only after the stage-1 response has been
\* received and parsed; at most one request is in flight at any time and
\* the identification request precedes the similarity request.
Claim_C2 ==
    service = "single" =>
        /\ Cardinality(inflight) <= 1
        /\ Len(requests) <= 2
        /\ Len(requests) >= 1 => requests[1].parts[1].text = identificationPrompt
        /\ Len(requests) = 2 =>
              /\ Stage1Match
              /\ identification = <<responses[1].reply.obj>>
              /\ 1 \notin inflight
              /\ requests[2].parts[1].text[1] = "These images show the same product: \""

\* the similarity request is in flight, the identification one answered
Witness_C2 ==
    service = "single" /\ pc = "scoring" /\ inflight = {2} /\ Len(responses) = 1

\* what `obvious_differences || []` must come to: the stage-1 list, or the
\* empty list when stage 1 gave none
Stage1DifferencesOrEmpty ==
    LET od == responses[1].reply.obj.initial_comparison.obvious_differences
    IN IF od.t = "array" THEN od ELSE JSList(<<>>)

\* the call resolved with the synthesized stage-2 fallback
ReturnedFallback ==
    /\ pc = "done"
    /\ error = <<>>
    /\ Len(result) = 1
    /\ result[1].summary.t = "string"
    /\ result[1].summary.s # <<>>
    /\ result[1].similarityPercentage = JSNum(75)
    /\ result[1].differences = Stage1DifferencesOrEmpty

ReturnedMismatch == Stage1Mismatch /\ pc = "done" /\ Len(result) = 1

\* C4: every report returned on the mismatch branch has areProductsSame
\* false, no similarityPercentage, no visualDifferences, and differences
\* starting with "Packaging shows: <name>" and "Delivery shows: <name>".
Claim_C4 ==
    ReturnedMismatch =>
        LET id == responses[1].reply.obj
            report == result[1]
        IN /\ report.areProductsSame = JSBool(FALSE)
           /\ report.similarityPercentage = Undefined
           /\ report.visualDifferences = Undefined
           /\ Len(report.differences.l) >= 2
           /\ report.differences.l[1]
                = <<"Packaging shows: ">> \o Interpolate(id.packaging_analysis.product_name)
           /\ report.differences.l[2]
                = <<"Delivery shows: ">> \o Interpolate(id.delivery_analysis.product_name)

\* C5: an unparseable stage-1 reply fails the whole call with the "Failed
\* to parse initial analysis" error; no report, no stage-2 request.
Claim_C5 ==
    (service = "single" /\ GotReply(1) /\ responses[1].reply.shape # "object") =>
        /\ pc = "failed"
        /\ error = <<NewError(<<"Failed to parse initial analysis. Please try again.">>)>>
        /\ result = <<>>
        /\ Len(requests) = 1
        /\ inflight = {}

\* the call has failed on a stage-1 reply with braces that is not JSON
Witness_C5 ==
    /\ service = "single"
    /\ GotReply(1)
    /\ responses[1].reply.shape = "malformed"
    /\ pc = "failed"

---------------------------------------------------------------------------
(* Properties of the Vision Client *)

\* the k-th response is an HTTP response with a non-success status
BadStatus(k) ==
    /\ Len(responses) >= k
    /\ responses[k].kind = "http"
    /\ ~(responses[k].status >= 200 /\ responses[k].status <= 299)

\* the k-th response makes its callGemini throw
FailedResponse(k) ==
    /\ Len(responses) >= k
    /\ \/ responses[k].kind = "network_error"
       \/ BadStatus(k)
       \/ responses[k].body \in {"not_json", "no_candidates"}

\* the error the status-code taxonomy asks for
TaxonomyError(resp) ==
    CASE resp.status = 401 ->
           NewError(<<"Invalid API key. Please check your Gemini API key.">>)
      [] resp.status = 429 ->
           NewError(<<"Rate limit exceeded. Please try again in a moment.">>)
      [] resp.status = 400 ->
           NewError(<<"Invalid request. Please check your images and try again.">>)
      [] OTHER ->
           NewError(<<"Gemini API error: ", ToString(resp.status), " - ", resp.statusText>>)

\* C6: in both services a non-success status is mapped by its code: 401 to
\* the invalid-credential error, 429 to the rate-limit error, 400 to the
\* invalid-request error, any other to the generic error with the status
\* code and reason text.
Claim_C6 ==
    \A k \in 1..Len(responses) :
        BadStatus(k) => error = <<TaxonomyError(responses[k])>>

\* what makes the k-th callGemini throw, as the caller must see it
ExpectedThrow(k) ==
    IF responses[k].kind = "network_error" THEN <<"Failed to fetch">>
    ELSE IF BadStatus(k)
    THEN IF service = "single" THEN TaxonomyError(responses[k]).message
         ELSE <<"Gemini API error: ", ToString(responses[k].status), " - ",
                responses[k].statusText>>
    ELSE IF responses[k].body = "not_json" THEN <<"SyntaxError">>
    ELSE <<"TypeError">>

CallImages == packagingBase64 \o deliveryBase64

\* C8: a request body has n+1 parts for n images: the prompt text first,
\* then one inline image/jpeg part per image, in the order of the list.
Claim_C8 ==
    \A k \in 1..Len(requests) :
        LET parts == requests[k].parts
        IN /\ Len(parts) = Len(CallImages) + 1
           /\ parts[1].kind = "text"
           /\ parts[1].text # <<>>
           /\ \A i \in 1..Len(CallImages) :
                 /\ parts[i + 1].kind = "inline_data"
                 /\ parts[i + 1].mime_type = "image/jpeg"
                 /\ parts[i + 1].data = CallImages[i]

\* a request with three or more images of non-JPEG files has been sent
Witness_C8 ==
    /\ Len(requests) = 1
    /\ Len(requests[1].parts) >= 4
    /\ fileType = "image/png"

---------------------------------------------------------------------------
(* Properties of analyzeMultipleImages *)

\* the encodings of the caller's files, packaging first, in caller order
CallerOrder ==
    [i \in 1..Len(packagingImages) |-> convertImageToBase64(packagingImages[i])]
    \o [i \in 1..Len(deliveryImages) |-> convertImageToBase64(deliveryImages[i])]

\* C9: the one request is sent only after all P+D encodings have finished;
\* its images are the P packaging images then the D delivery images, each
\* side in caller order whatever order the reads finish in, and its prompt
\* states P and D.
Claim_C9 ==
    (service = "multi" /\ Len(requests) >= 1) =>
        LET parts == requests[1].parts
            np == Len(packagingImages)
            nd == Len(deliveryImages)
        IN /\ Len(requests) = 1
           /\ pending = {}
           /\ reads = np + nd
           /\ Len(packagingBase64) = np
           /\ Len(deliveryBase64) = nd
           /\ \A i \in 1..nd : slots[i] # <<>>
           /\ Len(parts) = np + nd + 1
           /\ \A i \in 1..(np + nd) : parts[i + 1].data = CallerOrder[i]
           /\ parts[1].text[2] = ToString(np)
           /\ parts[1].text[4] = ToString(nd)

\* the request has been sent for two or more images on each side
Witness_C9 ==
    /\ service = "multi"
    /\ Len(requests) = 1
    /\ Len(packagingImages) >= 2
    /\ Len(deliveryImages) >= 2

\* C10: every entry of a returned angleAnalysis has packagingImageIndex in
\* [0, P) and deliveryImageIndex in [0, D).
Claim_C10 ==
    (service = "multi" /\ pc = "done" /\ Len(result) = 1) =>
        \A i \in 1..Len(result[1].angleAnalysis.l) :
            LET entry == result[1].angleAnalysis.l[i]
            IN /\ entry.packagingImageIndex.n >= 0
               /\ entry.packagingImageIndex.n < Len(packagingImages)
               /\ entry.deliveryImageIndex.n >= 0
               /\ entry.deliveryImageIndex.n < Len(deliveryImages)

\* the k-th reply of the multi-angle call, as received
MultiReplyObject(k) == responses[k].reply.obj

\* C11: a report of analyzeMultipleImages carries, in technicalAnalysis,
\* total_packaging_images = P, total_delivery_images = D and angles_analyzed
\* = the length of the returned angleAnalysis, whatever the model's own
\* technical_analysis says under those names.
Claim_C11 ==
    (service = "multi" /\ pc = "done" /\ Len(result) = 1) =>
        LET ta == result[1].technicalAnalysis
        IN /\ ta.total_packaging_images = JSNum(Len(packagingImages))
           /\ ta.total_delivery_images = JSNum(Len(deliveryImages))
           /\ ta.angles_analyzed = JSNum(Len(result[1].angleAnalysis.l))

\* a report was returned for a reply whose technical_analysis names its own
\* counts, different from those of the call
Witness_C11 ==
    /\ service = "multi"
    /\ pc = "done"
    /\ Len(responses) = 1
    /\ MultiReplyObject(1).technical_analysis.total_packaging_images.t = "number"
    /\ MultiReplyObject(1).technical_analysis.total_packaging_images
          # JSNum(Len(packagingImages))
    /\ MultiReplyObject(1).technical_analysis.angles_analyzed
          # JSNum(Len(result[1].angleAnalysis.l))

\* C12: a multi-angle reply without JSON, or with malformed JSON, makes the
\* call fail with "Failed to parse multi-image analysis. Please try again.";
\* no report is returned and no second request is sent.
Claim_C12 ==
    (/\ service = "multi"
     /\ Len(responses) >= 1
     /\ GotReply(1)
     /\ responses[1].reply.shape \in {"no_braces", "malformed"}) =>
        /\ pc = "failed"
        /\ result = <<>>
        /\ error = <<NewError(
               <<"Failed to parse multi-image analysis. Please try again.">>)>>
        /\ Len(requests) = 1
        /\ inflight = {}

\* the multi-angle reply held braces around malformed JSON
Witness_C12 ==
    /\ service = "multi"
    /\ Len(responses) = 1
    /\ GotReply(1)
    /\ responses[1].reply.shape = "malformed"
    /\ pc = "failed"

---------------------------------------------------------------------------
(* Properties of the reports and the failures of both services *)

\* the report fields copied from the reply of analyzeImages' stage 1
Stage1ReportFields(report) ==
    {report.packagingProduct, report.deliveryProduct, report.areProductsSame,
     report.confidenceScore}

\* the report fields copied from the reply of analyzeMultipleImages
MultiReportFields(report) ==
    {report.packagingProduct, report.deliveryProduct, report.areProductsSame,
     report.overallSimilarityPercentage, report.comprehensiveDifferences,
     report.confidenceScore, report.recommendations}

\* C13: a call whose parsed reply lacks a field the report is built from
\* fails; no returned report has such a field absent.
Claim_C13 ==
    (pc = "done" /\ Len(result) = 1) =>
        \A v \in (IF service = "single" THEN Stage1ReportFields(result[1])
                  ELSE MultiReportFields(result[1])) :
            v.t # "undefined"

\* C14: the confidenceScore of every returned report is a number in [0,100].
Claim_C14 ==
    (pc = "done" /\ Len(result) = 1 /\ result[1].confidenceScore.t = "number") =>
        /\ result[1].confidenceScore.n >= 0
        /\ result[1].confidenceScore.n <= 100

\* `setError(err instanceof Error ? err.message : "Analysis failed")`
handleAnalysisError(err) ==
    IF err.isError THEN err.message ELSE <<"Analysis failed">>

\* the generic error of each service's outer catch
GenericError ==
    IF service = "single"
    THEN NewError(<<"Failed to analyze images. Please try again.">>)
    ELSE NewError(<<"Failed to analyze multiple images. Please try again.">>)

\* C16: a failing call of either service rejects with an Error whose message
\* is non-empty: a file-reader error event is replaced by the service's
\* generic Error, and the page has a non-empty message to show.
Claim_C16 ==
    pc = "failed" =>
        /\ result = <<>>
        /\ Len(error) = 1
        /\ error[1].isError
        /\ error[1].message # <<>>
        /\ handleAnalysisError(error[1]) = error[1].message
        /\ requests = <<>> => error[1] = GenericError

\* a call failed on the read of a delivery file, before any request
Witness_C16 ==
    /\ pc = "failed"
    /\ requests = <<>>
    /\ \E i \in 1..Len(deliveryImages) : ~deliveryImages[i].readable

\* one of the caller's files cannot be read
SomeFileUnreadable ==
    \/ \E i \in 1..Len(packagingImages) : ~packagingImages[i].readable
    \/ \E i \in 1..Len(deliveryImages) : ~deliveryImages[i].readable

\* C19: when the encoding of any input image fails, the call of either
\* service never sends a request and never returns a report, no file is
\* read twice, and once the failure is seen the call is rejected with the
\* service's generic error, whichever image fails and whatever the other
\* reads do.
Claim_C19 ==
    SomeFileUnreadable =>
        /\ requests = <<>>
        /\ inflight = {}
        /\ result = <<>>
        /\ pc \in {"start", "readPackaging", "readDelivery", "failed"}
        /\ reads <= Len(packagingImages) + Len(deliveryImages)
        /\ pc = "failed" => error = <<GenericError>>

\* a multi-angle call failed on its second delivery image after every other
\* read, the first delivery image included, had succeeded
Witness_C19 ==
    /\ service = "multi"
    /\ pc = "failed"
    /\ pending = {}
    /\ Len(deliveryImages) >= 2
    /\ \A i \in 1..Len(packagingImages) : packagingImages[i].readable
    /\ deliveryImages[1].readable
    /\ ~deliveryImages[2].readable
    /\ slots[1] # <<>>

---------------------------------------------------------------------------
(* Properties of the local fallback analyzer *)

\* both data URLs decode to images
BothDecode == hfBase64[1].picture.decodes /\ hfBase64[2].picture.decodes

Claim_C18 ==
    /\ \A i \in 1..2 :
          (hfResponses[i] # <<>> /\ CaptionRequestFailed(hfResponses[i][1])) =>
              hfDescriptions[i] = <<JSStr(<<"Analysis", "failed">>)>>
    /\ hfPc = "failed" =>
          \E i \in 1..2 :
              \/ ~hfFiles[i].readable
              \/ /\ hfResponses[i] # <<>>
                 /\ ~CaptionRequestFailed(hfResponses[i][1])
                 /\ hfResponses[i][1].text.t = "number"
    /\ hfPc = "done" =>
          /\ Len(hfResult) = 1
          /\ hfSimilarity # <<>>
          /\ hfResult[1].similarityPercentage = hfSimilarity[1]
          /\ hfResult[1].technicalAnalysis.pixel_similarity = hfSimilarity[1]
          /\ (hfContext /\ BothDecode) =>
                hfResult[1].similarityPercentage
                    = PixelSimilarity(hfBase64[1], hfBase64[2])

\* the call resolved although both captioning requests failed, one on the
\* network and one with a 503, for two different decodable images
Witness_C18 ==
    /\ hfPc = "done"
    /\ hfResponses[1] # <<>> /\ hfResponses[1][1].kind = "network_error"
    /\ hfResponses[2] # <<>> /\ hfResponses[2][1].status = 503
    /\ hfContext
    /\ BothDecode
    /\ hfBase64[1].picture # hfBase64[2].picture
    /\ Len(hfResult) = 1

---------------------------------------------------------------------------
(* Properties of the Python image processor *)

\* C20: however the calls of processImagesWithPython interleave at their
\* await points, each call that returns gives the comparison of its own two
\* images, although the calls share one interpreter and its img1_base64 and
\* img2_base64 globals.
Claim_C20 ==
    \A c \in Calls :
        pyPc[c] = "done" =>
            /\ Len(pyResult[c]) = 1
            /\ pyResult[c][1].of = <<<<pyArgs[c][1]>>, <<pyArgs[c][2]>>>>
            /\ pyResult[c][1].identical = (pyArgs[c][1] = pyArgs[c][2])

\* the second call, begun while the first was still awaiting
\* initializePyodide, has overtaken it on the same interpreter with other
\* images, and the first has then returned too
Witness_C20 ==
    /\ pyPc[1] = "done"
    /\ pyPc[2] = "done"
    /\ pyodide[1] = pyodide[2]
    /\ pyArgs[1] # pyArgs[2]
    /\ interpreters[pyodide[1]].img1_base64 = <<pyArgs[1][1]>>
    /\ interpreters[pyodide[1]].img2_base64 = <<pyArgs[1][2]>>

---------------------------------------------------------------------------
(* Properties of the reply parsing step *)

\* the braces of a text are balanced: no prefix closes more than it opens,
\* and the whole text closes all it opens
Balanced(text) ==
    LET opened(k) == Cardinality({i \in 1..k : text[i] = "{"})
        closed(k) == Cardinality({i \in 1..k : text[i] = "}"})
    IN /\ \A k \in 1..Len(text) : opened(k) >= closed(k)
       /\ opened(Len(text)) = closed(Len(text))

BraceFree(text) == \A i \in 1..Len(text) : text[i] \notin {"{", "}"}

\* some brace of the text stands between two double quotes
BraceBetweenQuotes(text) ==
    \E i, j, k \in 1..Len(text) :
        i < j /\ j < k /\ text[i] = "quote" /\ text[j] \in {"{", "}"} /\ text[k] = "quote"

\* the text from its first opening brace to its last closing brace; empty
\* when no closing brace follows the first opening brace
FirstToLast(text) ==
    IF IndexOf(text, "{") = 0 \/ LastIndexOf(text, "}") < IndexOf(text, "{")
    THEN <<>>
    ELSE SubSeq(text, IndexOf(text, "{"), LastIndexOf(text, "}"))

\* a reply without an opening brace is a parse error
NoBraceIsError ==
    (parsed # <<>> /\ IndexOf(replyText, "{") = 0) => ~parsed[1].ok

\* one JSON object between two stretches of brace-free prose is returned
OneRegionIsReturned ==
    parsed # <<>> =>
        \A i, j \in 1..Len(replyText) :
            (/\ i < j
             /\ BraceFree(SubSeq(replyText, 1, i - 1))
             /\ BraceFree(SubSeq(replyText, j + 1, Len(replyText)))
             /\ JSONParse(SubSeq(replyText, i, j)).ok) =>
                /\ parsed[1].ok
                /\ parsed[1].value = JSONParse(SubSeq(replyText, i, j)).value

\* C15 as stated: the span from the first '{' to the last '}' is parsed; no
\* '{' at all is a parse error, unbalanced braces are a parse error, and one
\* balanced region between brace-free prose yields the object of the region.
Original_C15 ==
    /\ NoBraceIsError
    /\ (parsed # <<>> /\ ~BraceFree(replyText) /\ ~Balanced(replyText))
          => ~parsed[1].ok
    /\ OneRegionIsReturned

\* C15, amended: the braces that count are those from the first '{' to the
\* last '}', outside string literals.  A parse error follows when no '}'
\* comes after the first '{', or when the braces of that span are
\* unbalanced and no brace stands between double quotes; a '}' before the
\* first '{' is outside the span and is ignored.
Claim_C15 ==
    /\ NoBraceIsError
    /\ (/\ parsed # <<>>
        /\ ~BraceFree(replyText)
        /\ ~BraceBetweenQuotes(replyText)
        /\ (FirstToLast(replyText) = <<>> \/ ~Balanced(FirstToLast(replyText))))
          => ~parsed[1].ok
    /\ OneRegionIsReturned

\* a nested object between two pieces of prose has been parsed
Witness_C15 ==
    /\ parsed # <<>>
    /\ Len(replyText) >= 5
    /\ replyText[1] = "prose"
    /\ replyText[2] = "{"
    /\ replyText[3] = "{"
    /\ replyText[4] = "}"
    /\ replyText[5] = "}"
    /\ parsed[1].ok

---------------------------------------------------------------------------
(* Properties of stage 2 and of the multi-angle summary *)

\* C22: on the match branch only a parse failure of the stage-2 reply is
\* degraded to the fallback: when the stage-2 response is a failure (a
\* transport error, a non-success status, a body without a candidate text)
\* the call fails and returns no report.
Claim_C22 ==
    (Stage1Match /\ Len(responses) >= 2 /\ ~GotReply(2)) =>
        /\ pc = "failed"
        /\ result = <<>>
        /\ Len(error) = 1

\* a field the stage-2 report is built from is absent from the reply
Stage2FieldMissing(sa) ==
    \/ sa.similarity_percentage.t = "undefined"
    \/ sa.detailed_differences.t = "undefined"
    \/ sa.technical_analysis.t = "undefined"
    \/ sa.visual_differences.t = "undefined"
    \/ sa.summary.t = "undefined"

\* C23: a stage-2 reply that parses but lacks a required field is treated
\* as a stage-2 parse error: a report returned for it is the fallback
\* (similarity 75, stage-1 differences, generic summary).
Claim_C23 ==
    (/\ Stage1Match
     /\ GotReply(2)
     /\ responses[2].reply.shape = "object"
     /\ Stage2FieldMissing(responses[2].reply.obj)
     /\ pc = "done") =>
        /\ Len(result) = 1
        /\ result[1].similarityPercentage = JSNum(75)
        /\ result[1].differences = Stage1DifferencesOrEmpty
        /\ result[1].summary.t = "string"
        /\ result[1].visualDifferences.t = "undefined"

\* C24: the detailedSummary of a multi-angle report is the fixed template
\* filled with the product name, the caller's counts P and D, the overall
\* similarity and the coverage percentage; its verdict sentence is
\* "Products match across all angles." exactly when the returned
\* areProductsSame is true, and "Significant discrepancies detected."
\* otherwise.
Claim_C24 ==
    (service = "multi" /\ pc = "done" /\ Len(result) = 1) =>
        result[1].detailedSummary =
            JSStr(<<"Multi-angle analysis of ">>
                  \o Interpolate(result[1].packagingProduct)
                  \o <<" completed. Analyzed ", ToString(Len(packagingImages)),
                       " packaging images and ", ToString(Len(deliveryImages)),
                       " delivery images. Overall similarity: ">>
                  \o Interpolate(result[1].overallSimilarityPercentage)
                  \o <<"%. ",
                       IF result[1].areProductsSame = JSBool(TRUE)
                       THEN "Products match across all angles."
                       ELSE "Significant discrepancies detected.",
                       " Coverage completeness: ">>
                  \o Interpolate(
                       responses[1].reply.obj.technical_analysis.coverage_completeness)
                  \o <<"%.">>)

\* a report was returned for a reply whose verdict is false, for two
\* packaging images and one delivery image
Witness_C24 ==
    /\ service = "multi"
    /\ pc = "done"
    /\ Len(result) = 1
    /\ result[1].areProductsSame = JSBool(FALSE)
    /\ Len(packagingImages) = 2
    /\ Len(deliveryImages) = 1
    /\ result[1].overallSimilarityPercentage.t = "number"

---------------------------------------------------------------------------
(* Properties of calculateImageSimilarity's promise *)

\* C30: calculateImageSimilarity settles once, with one value, for every
\* order of the two images' load and error events: the pixel score when
\* both load, 50 when an image fails, and it is pending only while an event
\* is still to come.
Claim_C30 ==
    (hfContext /\ Len(hfBase64) = 2) =>
        /\ hfSimilarity # <<>> =>
              /\ hfSimilarity[1] = IF BothDecode
                                   THEN PixelSimilarity(hfBase64[1], hfBase64[2])
                                   ELSE 50
              /\ \A k \in 1..Len(hfSimilarity) : hfSimilarity[k] = hfSimilarity[1]
              /\ hfPc \in {"done", "failed"}
              /\ hfPc = "done" => hfResult[1].similarityPercentage = hfSimilarity[1]
        /\ hfPc = "comparing" =>
              /\ hfSimilarity = <<>>
              /\ hfDecoding # {}
              /\ \A i \in {1, 2} \ hfDecoding : hfBase64[i].picture.decodes
        /\ BothDecode => Len(hfSimilarity) = (IF loadedCount = 2 THEN 1 ELSE 0)

\* the first image loaded, then the second failed: the call has resolved
\* with 50 and nothing is left to come
Witness_C30 ==
    /\ hfContext
    /\ Len(hfBase64) = 2
    /\ hfBase64[1].picture.decodes
    /\ ~hfBase64[2].picture.decodes
    /\ loadedCount = 1
    /\ hfDecoding = {}
    /\ hfSimilarity = <<50>>
    /\ hfPc = "done"

---------------------------------------------------------------------------
(* Properties of initializePyodide *)

\* the calls whose loadPyodide is under way
LoadingCalls == {c \in Calls : pyPc[c] = "loading"}

\* C26: the interpreter is loaded at most once: once an interpreter is
\* stored every later call returns it without loading, and calls that start
\* before the first has finished do not invoke loadPyodide a second time.
Claim_C26 ==
    /\ Len(interpreters) + Cardinality(LoadingCalls) <= 1
    /\ \A c \in Calls : pyodide[c] # 0 => pyodide[c] = 1
    /\ pyodideInstance \in {0, 1}

---------------------------------------------------------------------------
(* Properties of the pages and their upload widgets *)

\* a step in which handleAnalysis calls the analyzer
AnalyzerInvoked == analyses' = analyses + 1

\* C21: on the multi-angle page a side's list never holds more than
\* maxImages files, whatever is selected and removed, and the analyzer is
\* invoked only with both lists holding at least one file.
Claim_C21 ==
    [][pageKind = "multi" =>
          /\ \A side \in Sides : Len(selectedImages'[side]) <= maxImages
          /\ AnalyzerInvoked =>
                 \A side \in Sides :
                     /\ Len(selectedImages[side]) \in 1..maxImages
                     /\ selectedImages'[side] = selectedImages[side]]_vars

Witness_C21 ==
    /\ pageKind = "multi"
    /\ Len(selectedImages["packaging"]) = maxImages
    /\ Len(selectedImages["delivery"]) = 1
    /\ analysisCalls = {1}

\* the calls of the analyzer that have not settled or not been published
UnfinishedAnalyses == analysisCalls \cup publishTimeouts

\* C27: on both pages at most one analysis is in flight: one starts only
\* while isAnalyzing is false, and isAnalyzing stays true from the start
\* until the step that publishes the result or sets the error.
Claim_C27 ==
    /\ [](/\ Cardinality(UnfinishedAnalyses) <= 1
          /\ UnfinishedAnalyses # {} <=> isAnalyzing)
    /\ [][/\ AnalyzerInvoked => ~isAnalyzing /\ isAnalyzing'
          /\ (isAnalyzing /\ ~isAnalyzing') =>
                 \/ results' # <<>> /\ results = <<>> /\ UNCHANGED pageError
                 \/ pageError' # <<>> /\ pageError = <<>> /\ UNCHANGED results]_vars

Witness_C27 ==
    /\ analyses = 2
    /\ isAnalyzing
    /\ analysisCalls = {}
    /\ publishTimeouts = {2}
    /\ pageError = <<>>

\* C28: on both pages the progress timer is stopped when the analysis ends,
\* by success or by failure: while isAnalyzing is false no timer is running
\* and analysisProgress is 0, and analysisProgress never exceeds 100.
Claim_C28 ==
    /\ ~isAnalyzing => progressIntervals = {} /\ analysisProgress = 0
    /\ analysisProgress <= 100

\* preview i of a side is a URL of file i of that side
PreviewsBelong(side) ==
    /\ Len(previewUrls[side]) = Len(selectedImages[side])
    /\ \A i \in 1..Len(previewUrls[side]) :
           previewUrls[side][i].blob = selectedImages[side][i]

\* a step that removes one file of a side
RemovesOne(side) == Len(selectedImages'[side]) = Len(selectedImages[side]) - 1

\* C29: in MultiImageUploader the previews are as many as the files and
\* preview i belongs to file i, so removing a preview removes its file.
Claim_C29 ==
    /\ [](\A side \in Sides : PreviewsBelong(side))
    /\ [][\A side \in Sides :
              RemovesOne(side) =>
                  \E index \in 0..(Len(previewUrls[side]) - 1) :
                      /\ previewUrls'[side] = FilterOutIndex(previewUrls[side], index)
                      /\ selectedImages'[side] =
                             FilterOutIndex(selectedImages[side], index)]_vars

Witness_C29 ==
    /\ pageKind = "multi"
    /\ Len(selectedImages["packaging"]) = 2
    /\ selectedImages["packaging"][1].name = "b.png"
    /\ selectedImages["packaging"][2].name = "a.jpg"
    /\ previewUrls["packaging"][1].blob.name = "b.png"
    /\ Len(selectedImages["delivery"]) = maxImages

---------------------------------------------------------------------------
(* Properties of calculate_similarity_basic *)

\* the similarity the formula gives for exact squared differences
RECURSIVE ExactSum(_, _)
ExactSum(arr1, arr2) ==
    IF arr1 = <<>> THEN 0
    ELSE ExactSquaredError(Head(arr1), Head(arr2)) + ExactSum(Tail(arr1), Tail(arr2))

\* C25: for two images that open, the value returned lies in [0, 100], is
\* 100 for equal arrays, and is the value the formula gives with exact
\* (non-wrapping) squared differences.
Claim_C25 ==
    (similarity # <<>> /\ similarityArgs[1].decodes /\ similarityArgs[2].decodes) =>
        LET arr1 == similarityArgs[1].arr
            arr2 == similarityArgs[2].arr
        IN  /\ similarity[1] >= 0
            /\ similarity[1] <= 100 * SimilarityUnit
            /\ arr1 = arr2 => similarity[1] = 100 * SimilarityUnit
            /\ similarity[1] = SimilarityOfSum(ExactSum(arr1, arr2))

===========================================================================
